---- MODULE Spec2Model ----
(***************************************************************************)
(* rpc_component: a file-based registry of components, their releases and  *)
(* their dependency constraints (rpc_component/schemata.py, component.py,  *)
(* cli.py).                                                                *)
(*                                                                         *)
(* Strings that the program parses (version identifiers, constraint        *)
(* expressions) are sequences of one-character strings, so that the        *)
(* regular expressions of schemata.py are matched character by character.  *)
(* Strings the program only compares or tests against a fixed pattern      *)
(* (names, series labels, URLs, commit hashes) are TLA+ strings.           *)
(***************************************************************************)
EXTENDS Integers, Sequences, FiniteSets, TLC

VARIABLES
    (* version ordering: three version identifiers and the comparisons made *)
    va, vb, vc, cmp,
    (* constraint evaluation: a constraint expression, two candidates, results *)
    cexpr, cand1, cand2, chk,
    (* a Component object, the documents of its directory, the last operation
       on it, and what was read when it was loaded *)
    comp, stored, last, loaded,
    (* requirement resolution: a component, a list of constraint expressions
       and the requirement resolved from them *)
    rcomp, cons, req,
    (* Component.difference: two components and the difference computed *)
    self, other, diff,
    (* the registry's git repository: the commit HEAD points to, and the last
       command run on it *)
    head, run,
    (* the command line: the files of the components directory and of the
       dependency directory, how many commands were run, the calls of
       save_data and commit_changes made by the last one, and how it exited *)
    components_dir, dependency_dir, commands, calls, exit

orderVars == <<va, vb, vc, cmp>>
constraintVars == <<cexpr, cand1, cand2, chk>>
componentVars == <<comp, stored, last, loaded>>
resolveVars == <<rcomp, cons, req>>
differenceVars == <<self, other, diff>>
repoVars == <<head, run>>
cliVars == <<components_dir, dependency_dir, commands, calls, exit>>
vars == <<orderVars, constraintVars, componentVars, resolveVars,
          differenceVars, repoVars, cliVars>>

notOrder ==
    <<constraintVars, componentVars, resolveVars, differenceVars, repoVars,
      cliVars>>
notConstraint ==
    <<orderVars, componentVars, resolveVars, differenceVars, repoVars,
      cliVars>>
notComponent ==
    <<orderVars, constraintVars, resolveVars, differenceVars, repoVars,
      cliVars>>
notResolve ==
    <<orderVars, constraintVars, componentVars, differenceVars, repoVars,
      cliVars>>
notDifference ==
    <<orderVars, constraintVars, componentVars, resolveVars, repoVars,
      cliVars>>
notRepo ==
    <<orderVars, constraintVars, componentVars, resolveVars, differenceVars,
      cliVars>>
notCli ==
    <<orderVars, constraintVars, componentVars, resolveVars, differenceVars,
      repoVars>>

\* Each specification below exercises one part of the program; the variables
\* of the other parts keep these values.
Unused == [unused |-> TRUE]

NotCompared ==
    [done |-> FALSE, lt_ab |-> FALSE, lt_ba |-> FALSE, eq_ab |-> FALSE,
     lt_bc |-> FALSE, lt_ac |-> FALSE]

NotChecked == [done |-> FALSE, r1 |-> FALSE, r2 |-> FALSE]

NoOperation ==
    [op |-> "none", ok |-> TRUE, error |-> "", version |-> <<>>,
     before |-> <<>>, was_changed |-> FALSE]

OrderIdle == va = Unused /\ vb = Unused /\ vc = Unused /\ cmp = NotCompared

ConstraintIdle ==
    cexpr = Unused /\ cand1 = Unused /\ cand2 = Unused /\ chk = NotChecked

ComponentIdle ==
    comp = Unused /\ stored = <<>> /\ last = NoOperation /\ loaded = Unused

NotResolved == [done |-> FALSE]

NotComputed == [done |-> FALSE]

NotRun == [command |-> "none"]

ResolveIdle == rcomp = Unused /\ cons = <<>> /\ req = NotResolved

DifferenceIdle == self = Unused /\ other = Unused /\ diff = NotComputed

RepoIdle == head = "" /\ run = NotRun

NotExited == [command |-> "none"]

CliIdle ==
    /\ components_dir = <<>> /\ dependency_dir = Unused
    /\ commands = 0 /\ calls = <<>> /\ exit = NotExited

IdleExcept(part) ==
    /\ IF part = "order" THEN TRUE ELSE OrderIdle
    /\ IF part = "constraint" THEN TRUE ELSE ConstraintIdle
    /\ IF part = "component" THEN TRUE ELSE ComponentIdle
    /\ IF part = "resolve" THEN TRUE ELSE ResolveIdle
    /\ IF part = "difference" THEN TRUE ELSE DifferenceIdle
    /\ IF part = "repo" THEN TRUE ELSE RepoIdle
    /\ IF part = "cli" THEN TRUE ELSE CliIdle

-----------------------------------------------------------------------------
(* Python values *)

\* None, where a string or a sequence is expected: a regex group that did not
\* take part in the match.
NoGroup == <<>>

\* None, where an integer is expected (int_or_none of an absent group); every
\* parsed number is >= 0.
NoneInt == -1

Digit == {"0", "1", "2", "3", "4", "5", "6", "7", "8", "9"}

DigitVal(c) ==
    CASE c = "0" -> 0 [] c = "1" -> 1 [] c = "2" -> 2 [] c = "3" -> 3
      [] c = "4" -> 4 [] c = "5" -> 5 [] c = "6" -> 6 [] c = "7" -> 7
      [] c = "8" -> 8 [] c = "9" -> 9

\* int(x) of a string of decimal digits
RECURSIVE int(_)
int(ds) ==
    IF Len(ds) = 0 THEN 0
    ELSE 10 * int(SubSeq(ds, 1, Len(ds) - 1)) + DigitVal(ds[Len(ds)])

\* Comparison of two tuples of integers, as Python compares tuples: at the
\* first position where they differ, else the shorter one is the smaller.
RECURSIVE TupleLt(_, _)
TupleLt(x, y) ==
    IF Len(y) = 0 THEN FALSE
    ELSE IF Len(x) = 0 THEN TRUE
    ELSE IF x[1] # y[1] THEN x[1] < y[1]
    ELSE TupleLt(Tail(x), Tail(y))

-----------------------------------------------------------------------------
(* schemata.py: the version grammar *)

\* The index after the longest run of digits of s that starts at index i:
\* what the greedy [0-9]+ consumes.
RECURSIVE DigitsEnd(_, _)
DigitsEnd(s, i) ==
    IF i <= Len(s) /\ s[i] \in Digit THEN DigitsEnd(s, i + 1) ELSE i

\* Whether the characters of s from index i on start with the literal lit.
StartsWith(s, i, lit) ==
    /\ i + Len(lit) - 1 <= Len(s)
    /\ \A k \in 1..Len(lit) : s[i + k - 1] = lit[k]

NoMatch ==
    [matched |-> FALSE, end |-> 0, major |-> NoGroup, minor |-> NoGroup,
     patch |-> NoGroup, prerelease |-> NoGroup, prerelease_version |-> NoGroup]

\* (-(?P<prerelease>alpha|beta|rc)\.(?P<prerelease_version>[0-9]+)) tried at
\* index i of s.
PrereleaseAt(s, i) ==
    LET word == IF StartsWith(s, i + 1, <<"a", "l", "p", "h", "a">>)
                THEN <<"a", "l", "p", "h", "a">>
                ELSE IF StartsWith(s, i + 1, <<"b", "e", "t", "a">>)
                THEN <<"b", "e", "t", "a">>
                ELSE IF StartsWith(s, i + 1, <<"r", "c">>)
                THEN <<"r", "c">>
                ELSE NoGroup
        d == i + 1 + Len(word) + 1
        e == DigitsEnd(s, d)
    IN  IF /\ StartsWith(s, i, <<"-">>)
           /\ word # NoGroup
           /\ StartsWith(s, i + 1 + Len(word), <<".">>)
           /\ e > d
        THEN [matched |-> TRUE, end |-> e, prerelease |-> word,
              prerelease_version |-> SubSeq(s, d, e - 1)]
        ELSE [matched |-> FALSE, end |-> i, prerelease |-> NoGroup,
              prerelease_version |-> NoGroup]

\* re.match(version_regex, s): r? major . minor . patch, an optional
\* pre-release part, and then the end of the string.
version_regex(s) ==
    LET p0 == IF StartsWith(s, 1, <<"r">>) THEN 2 ELSE 1
        p1 == DigitsEnd(s, p0)
        p2 == DigitsEnd(s, p1 + 1)
        p3 == DigitsEnd(s, p2 + 1)
        pre == PrereleaseAt(s, p3)
    IN  IF /\ p1 > p0
           /\ StartsWith(s, p1, <<".">>)
           /\ p2 > p1 + 1
           /\ StartsWith(s, p2, <<".">>)
           /\ p3 > p2 + 1
           /\ pre.end = Len(s) + 1
        THEN [matched |-> TRUE, end |-> pre.end,
              major |-> SubSeq(s, p0, p1 - 1),
              minor |-> SubSeq(s, p1 + 1, p2 - 1),
              patch |-> SubSeq(s, p2 + 1, p3 - 1),
              prerelease |-> pre.prerelease,
              prerelease_version |-> pre.prerelease_version]
        ELSE NoMatch

\* re.match(constraint_regex, s): r? major, then optionally .minor, then
\* optionally .patch, then optionally the pre-release part, each nested in the
\* one before; the pattern is not anchored at the end of the string.
constraint_regex(s) ==
    LET p0 == IF StartsWith(s, 1, <<"r">>) THEN 2 ELSE 1
        p1 == DigitsEnd(s, p0)
        p2 == DigitsEnd(s, p1 + 1)
        hasMinor == StartsWith(s, p1, <<".">>) /\ p2 > p1 + 1
        p3 == DigitsEnd(s, p2 + 1)
        hasPatch == hasMinor /\ StartsWith(s, p2, <<".">>) /\ p3 > p2 + 1
        pre == PrereleaseAt(s, p3)
        hasPre == hasPatch /\ pre.matched
    IN  IF p1 > p0
        THEN [matched |-> TRUE,
              end |-> IF hasPre THEN pre.end
                      ELSE IF hasPatch THEN p3
                      ELSE IF hasMinor THEN p2 ELSE p1,
              major |-> SubSeq(s, p0, p1 - 1),
              minor |-> IF hasMinor THEN SubSeq(s, p1 + 1, p2 - 1) ELSE NoGroup,
              patch |-> IF hasPatch THEN SubSeq(s, p2 + 1, p3 - 1) ELSE NoGroup,
              prerelease |-> IF hasPre THEN pre.prerelease ELSE NoGroup,
              prerelease_version |->
                  IF hasPre THEN pre.prerelease_version ELSE NoGroup]
        ELSE NoMatch

\* prerelease_map with the absent channel ranked first instead of last.
prerelease_map_none_first(word) ==
    CASE word = <<"a", "l", "p", "h", "a">> -> 1
      [] word = <<"b", "e", "t", "a">> -> 2
      [] word = <<"r", "c">> -> 3
      [] word = NoGroup -> 0

prerelease_map(word) ==
    CASE word = <<"a", "l", "p", "h", "a">> -> 0
      [] word = <<"b", "e", "t", "a">> -> 1
      [] word = <<"r", "c">> -> 2
      [] word = NoGroup -> 3

int_or_none(x) == IF x = NoGroup THEN NoneInt ELSE int(x)

\* _version_key(version_id, regex), given the match v of the regex on
\* version_id: (major, minor, patch, prerelease, prerelease_version).
_version_key(v) ==
    <<int(v.major),
      int_or_none(v.minor),
      int_or_none(v.patch),
      prerelease_map(v.prerelease),
      IF v.prerelease_version = NoGroup THEN 0 ELSE int(v.prerelease_version)>>

version_key(version_id) == _version_key(version_regex(version_id))

constraint_key(version_id) == _version_key(constraint_regex(version_id))

-----------------------------------------------------------------------------
(* component.py: Release, build_constraint_checker *)

\* Release.__eq__: the version strings are the same string.
Release_eq(a, b) == a.version = b.version

\* Release.__lt__: comparison of the version keys.
Release_lt(a, b) == TupleLt(version_key(a.version), version_key(b.version))

\* comparison_operator_regex tried at index i of s: ((=|!)=|(<|>)=?), the
\* operator text or NoGroup.
comparison_operator_regex(s, i) ==
    IF StartsWith(s, i, <<"=", "=">>) THEN <<"=", "=">>
    ELSE IF StartsWith(s, i, <<"!", "=">>) THEN <<"!", "=">>
    ELSE IF StartsWith(s, i, <<"<", "=">>) THEN <<"<", "=">>
    ELSE IF StartsWith(s, i, <<">", "=">>) THEN <<">", "=">>
    ELSE IF StartsWith(s, i, <<"<">>) THEN <<"<">>
    ELSE IF StartsWith(s, i, <<">">>) THEN <<">">>
    ELSE NoGroup

\* re.match(version_constraint_regex, s): ^version<op><partial version>$,
\* with the groups comparison_operator and version.
version_constraint_regex(s) ==
    LET kw == <<"v", "e", "r", "s", "i", "o", "n">>
        op == comparison_operator_regex(s, Len(kw) + 1)
        start == Len(kw) + Len(op) + 1
        rest == SubSeq(s, start, Len(s))
        v == constraint_regex(rest)
    IN  IF /\ StartsWith(s, 1, kw)
           /\ op # NoGroup
           /\ v.matched
           /\ v.end = Len(rest) + 1
        THEN [matched |-> TRUE, comparison_operator |-> op, version |-> rest]
        ELSE [matched |-> FALSE, comparison_operator |-> NoGroup,
              version |-> NoGroup]

\* op_map[op](x, y) on two tuples of integers.
op_map(op, x, y) ==
    CASE op = <<"=", "=">> -> x = y
      [] op = <<"!", "=">> -> x # y
      [] op = <<">", "=">> -> ~TupleLt(x, y)
      [] op = <<"<", "=">> -> ~TupleLt(y, x)
      [] op = <<">">> -> TupleLt(y, x)
      [] op = <<"<">> -> TupleLt(x, y)

\* takewhile(lambda x: x is not None, key)
RECURSIVE takewhile_not_none(_)
takewhile_not_none(key) ==
    IF Len(key) = 0 \/ key[1] = NoneInt THEN <<>>
    ELSE <<key[1]>> \o takewhile_not_none(Tail(key))

\* check_constraint comparing the candidate's whole key.
check_constraint_whole_key(op, constraint, version) ==
    LET c_key == takewhile_not_none(constraint_key(constraint))
    IN  op_map(op, constraint_key(version), c_key)

\* check_constraint(fn, constraint)(version): the candidate's key cut to the
\* length of the constraint's key, compared with the constraint's key.
check_constraint(op, constraint, version) ==
    LET c_key == takewhile_not_none(constraint_key(constraint))
    IN  op_map(op, SubSeq(constraint_key(version), 1, Len(c_key)), c_key)

\* build_constraint_checker(constraints)(version): all the checks hold.
meets_constraints(constraints, version) ==
    \A i \in 1..Len(constraints) :
        LET constraint_match == version_constraint_regex(constraints[i])
        IN  check_constraint(constraint_match.comparison_operator,
                             constraint_match.version, version)

-----------------------------------------------------------------------------
(* Inputs: version identifiers and constraint expressions, written out from *)
(* their parts.                                                             *)

DigitChar(d) == CHOOSE c \in Digit : DigitVal(c) = d

\* The decimal numeral of n, without leading zeros.
RECURSIVE Dec(_)
Dec(n) == IF n < 10 THEN <<DigitChar(n)>> ELSE Dec(n \div 10) \o <<DigitChar(n % 10)>>

ChannelWord(ch) ==
    CASE ch = "alpha" -> <<"a", "l", "p", "h", "a">>
      [] ch = "beta" -> <<"b", "e", "t", "a">>
      [] ch = "rc" -> <<"r", "c">>

\* The text [r][0]MAJOR.MINOR.PATCH[-channel.N] of the parts p.
VersionText(p) ==
    (IF p.r THEN <<"r">> ELSE <<>>) \o (IF p.pad THEN <<"0">> ELSE <<>>)
    \o Dec(p.maj) \o <<".">> \o Dec(p.min) \o <<".">> \o Dec(p.pat)
    \o (IF p.ch = "none" THEN <<>>
        ELSE <<"-">> \o ChannelWord(p.ch) \o <<".">> \o Dec(p.n))

Parts(r, pad, maj, min, pat, ch, n) ==
    [r |-> r, pad |-> pad, maj |-> maj, min |-> min, pat |-> pat, ch |-> ch, n |-> n]

WithText(p) ==
    [text |-> VersionText(p), r |-> p.r, pad |-> p.pad, maj |-> p.maj,
     min |-> p.min, pat |-> p.pat, ch |-> p.ch, n |-> p.n]

Plain(maj, min, pat) == WithText(Parts(FALSE, FALSE, maj, min, pat, "none", 0))

Pre(maj, min, pat, ch, n) == WithText(Parts(FALSE, FALSE, maj, min, pat, ch, n))

\* The versions of tests/test_component.py (test_ordering and
\* test_requirement_from_version_constraints), and three that the grammar's
\* optional r and its [0-9]+ add.
VersionInputs ==
    { Plain(1, 0, 0), Plain(1, 1, 0), Plain(1, 1, 2), Plain(1, 1, 10),
      Plain(2, 0, 0), Plain(10, 0, 0),
      Pre(2, 0, 0, "alpha", 1), Pre(2, 0, 0, "beta", 1), Pre(2, 0, 0, "beta", 2),
      Pre(2, 0, 0, "rc", 1), Pre(2, 0, 0, "rc", 2),
      WithText(Parts(TRUE, FALSE, 1, 0, 0, "none", 0)),
      WithText(Parts(FALSE, TRUE, 2, 0, 0, "none", 0)),
      WithText(Parts(TRUE, FALSE, 2, 0, 0, "rc", 1)) }

\* A Release as test_ordering builds it: Release(component, v, "", "").
BareRelease(v) == [version |-> v, sha |-> "", series |-> ""]

-----------------------------------------------------------------------------
(* Version ordering: Release.__lt__ and Release.__eq__ on three versions *)

InitOrder ==
    /\ va \in VersionInputs
    /\ vb \in VersionInputs
    /\ vc \in VersionInputs
    /\ cmp = NotCompared
    /\ IdleExcept("order")

\* a < b, b < a, a == b, b < c and a < c on the three releases, and the key
\* of a's version.
Compare ==
    /\ ~cmp.done
    /\ LET a == BareRelease(va.text)
           b == BareRelease(vb.text)
           c == BareRelease(vc.text)
       IN  cmp' = [done |-> TRUE,
                   key_a |-> version_key(va.text),
                   lt_ab |-> Release_lt(a, b),
                   lt_ba |-> Release_lt(b, a),
                   eq_ab |-> Release_eq(a, b),
                   lt_bc |-> Release_lt(b, c),
                   lt_ac |-> Release_lt(a, c)]
    /\ UNCHANGED <<va, vb, vc, notOrder>>

NextOrder == Compare

SpecOrder == InitOrder /\ [][NextOrder]_vars

-----------------------------------------------------------------------------
(* Properties of the version order *)

Rank(ch) == CASE ch = "alpha" -> 0 [] ch = "beta" -> 1 [] ch = "rc" -> 2 [] ch = "none" -> 3

\* The five fields of a version, from the parts it was written from.
PartsKey(p) == <<p.maj, p.min, p.pat, Rank(p.ch), p.n>>

\* x before y in the lexicographic order of two tuples of the same length.
LexLess(x, y) ==
    \E i \in 1..Len(x) : x[i] < y[i] /\ \A j \in 1..(i - 1) : x[j] = y[j]

OrderChain ==
    <<Plain(1, 0, 0), Plain(1, 1, 0), Plain(1, 1, 2), Plain(1, 1, 10),
      Plain(2, 0, 0), Plain(10, 0, 0)>>

PrereleaseChain ==
    <<Pre(2, 0, 0, "alpha", 1), Pre(2, 0, 0, "beta", 1), Pre(2, 0, 0, "beta", 2),
      Pre(2, 0, 0, "rc", 1), Pre(2, 0, 0, "rc", 2), Plain(2, 0, 0)>>

InChain(chain, x, y) == \E i \in 1..(Len(chain) - 1) : x = chain[i] /\ y = chain[i + 1]

\* C6: releases are ordered by the key (major, minor, patch, channel rank,
\* channel number), compared field by field as integers with alpha < beta < rc
\* < plain release: a < b is the lexicographic order of the fields the two
\* versions were written from, the two example chains ascend, a plain release
\* comes after every pre-release of its major.minor.patch, and a < b and b < c
\* give a < c.
C6_VersionOrderIsKeyOrder ==
    cmp.done =>
        /\ cmp.lt_ab = LexLess(PartsKey(va), PartsKey(vb))
        /\ (InChain(OrderChain, va, vb) \/ InChain(PrereleaseChain, va, vb)) => cmp.lt_ab
        /\ (/\ va.maj = vb.maj /\ va.min = vb.min /\ va.pat = vb.pat
            /\ va.ch # "none" /\ vb.ch = "none") => cmp.lt_ab
        /\ (cmp.lt_ab /\ cmp.lt_bc) => cmp.lt_ac

\* 1.1.2 < 1.1.10 < 2.0.0 has been compared.
C6_Witness ==
    /\ cmp.done
    /\ va = Plain(1, 1, 2) /\ vb = Plain(1, 1, 10) /\ vc = Plain(2, 0, 0)
    /\ cmp.lt_ab /\ cmp.lt_bc /\ cmp.lt_ac

\* C7: for any two valid version identifiers a and b exactly one of a < b,
\* a == b, b < a holds, == being equality of the version strings and < the
\* comparison of the version keys.
C7_OrderTotalOnVersionStrings ==
    cmp.done =>
        \/ (cmp.lt_ab /\ ~cmp.eq_ab /\ ~cmp.lt_ba)
        \/ (~cmp.lt_ab /\ cmp.eq_ab /\ ~cmp.lt_ba)
        \/ (~cmp.lt_ab /\ ~cmp.eq_ab /\ cmp.lt_ba)

\* The channel word of a rank of the key.
WordOfRank(rank) ==
    CASE rank = 0 -> ChannelWord("alpha") [] rank = 1 -> ChannelWord("beta")
      [] rank = 2 -> ChannelWord("rc")

\* major.minor.patch[-channel.n] written from a 5-field key, the numbers in
\* decimal; a key of rank 3 is a plain release.
Rebuilt(key) ==
    Dec(key[1]) \o <<".">> \o Dec(key[2]) \o <<".">> \o Dec(key[3])
    \o (IF key[4] = 3 THEN <<>>
        ELSE <<"-">> \o WordOfRank(key[4]) \o <<".">> \o Dec(key[5]))

\* C23 (as claimed): for every string accepted by the version grammar,
\* parsing it to its 5-field key and rebuilding major.minor.patch[-channel.n]
\* from that key gives back the original string byte for byte.
C23_KeyRoundTrip ==
    (cmp.done /\ version_regex(va.text).matched) => Rebuilt(cmp.key_a) = va.text

\* r2.0.0-rc.1 is accepted, has the key (2, 0, 0, 2, 1), and is rebuilt as
\* 2.0.0-rc.1.
C23_PrefixLost ==
    /\ cmp.done /\ version_regex(va.text).matched
    /\ va.r /\ va.ch = "rc"
    /\ cmp.key_a = <<2, 0, 0, 2, 1>>
    /\ Rebuilt(cmp.key_a) = Pre(2, 0, 0, "rc", 1).text
    /\ Rebuilt(cmp.key_a) # va.text

\* 02.0.0 is accepted and rebuilt as 2.0.0.
C23_LeadingZeroLost ==
    /\ cmp.done /\ version_regex(va.text).matched
    /\ va.pad /\ Rebuilt(cmp.key_a) = Plain(2, 0, 0).text

\* C23 for the strings written without the prefix r and without leading
\* zeros: the round trip gives back the string.
C23_RoundTripOfCanonicalStrings ==
    (cmp.done /\ ~va.r /\ ~va.pad) =>
        /\ version_regex(va.text).matched
        /\ cmp.key_a = PartsKey(va)
        /\ Rebuilt(cmp.key_a) = va.text

\* 2.0.0-beta.2 was parsed and rebuilt.
C23_PrereleaseRebuilt ==
    /\ cmp.done /\ va = Pre(2, 0, 0, "beta", 2)
    /\ cmp.key_a = <<2, 0, 0, 1, 2>> /\ Rebuilt(cmp.key_a) = va.text

-----------------------------------------------------------------------------
(* Constraint evaluation: build_constraint_checker on one expression *)

OpText(op) ==
    CASE op = "==" -> <<"=", "=">> [] op = "!=" -> <<"!", "=">>
      [] op = ">=" -> <<">", "=">> [] op = "<=" -> <<"<", "=">>
      [] op = ">" -> <<">">> [] op = "<" -> <<"<">>

Operators == {"==", "!=", ">=", "<=", ">", "<"}

\* The partial version of the parts p with its first `fields` numbers (1..3),
\* or with all three and the channel part (fields = 4).
PartialText(p, fields) ==
    (IF p.r THEN <<"r">> ELSE <<>>) \o Dec(p.maj)
    \o (IF fields >= 2 THEN <<".">> \o Dec(p.min) ELSE <<>>)
    \o (IF fields >= 3 THEN <<".">> \o Dec(p.pat) ELSE <<>>)
    \o (IF fields >= 4 THEN <<"-">> \o ChannelWord(p.ch) \o <<".">> \o Dec(p.n) ELSE <<>>)

ConstraintText(op, p, fields) ==
    <<"v", "e", "r", "s", "i", "o", "n">> \o OpText(op) \o PartialText(p, fields)

ConstraintInput(op, p, fields) ==
    [text |-> ConstraintText(op, p, fields), op |-> op, fields |-> fields, parts |-> p]

\* The partial versions of test_requirement_from_version_constraints (2, 1.1,
\* 10.0.0, 2.0.0-beta.1, 2.0.0-rc.2), and 1, r2 and 2.0.0.
PartialInputs ==
    { <<Parts(FALSE, FALSE, 2, 0, 0, "none", 0), 1>>,
      <<Parts(FALSE, FALSE, 1, 0, 0, "none", 0), 1>>,
      <<Parts(TRUE, FALSE, 2, 0, 0, "none", 0), 1>>,
      <<Parts(FALSE, FALSE, 1, 1, 0, "none", 0), 2>>,
      <<Parts(FALSE, FALSE, 2, 0, 0, "none", 0), 3>>,
      <<Parts(FALSE, FALSE, 10, 0, 0, "none", 0), 3>>,
      <<Parts(FALSE, FALSE, 2, 0, 0, "beta", 1), 4>>,
      <<Parts(FALSE, FALSE, 2, 0, 0, "rc", 2), 4>> }

ConstraintInputs ==
    { ConstraintInput(op, pf[1], pf[2]) : op \in Operators, pf \in PartialInputs }

InitConstraint ==
    /\ cexpr \in ConstraintInputs
    /\ cand1 \in VersionInputs
    /\ cand2 \in VersionInputs
    /\ chk = NotChecked
    /\ IdleExcept("constraint")

\* build_constraint_checker([constraint]) applied to each of two candidates.
CheckConstraint ==
    /\ ~chk.done
    /\ chk' = [done |-> TRUE,
               r1 |-> meets_constraints(<<cexpr.text>>, cand1.text),
               r2 |-> meets_constraints(<<cexpr.text>>, cand2.text)]
    /\ UNCHANGED <<cexpr, cand1, cand2, notConstraint>>

NextConstraint == CheckConstraint

SpecConstraint == InitConstraint /\ [][NextConstraint]_vars

Take(key, n) == SubSeq(key, 1, n)

OpHolds(op, x, y) ==
    CASE op = "==" -> x = y
      [] op = "!=" -> x # y
      [] op = ">=" -> ~LexLess(x, y)
      [] op = "<=" -> ~LexLess(y, x)
      [] op = ">" -> LexLess(y, x)
      [] op = "<" -> LexLess(x, y)

\* The number of key fields a constraint is evaluated on: 1 for MAJOR, 2 for
\* MAJOR.MINOR, and all 5 for MAJOR.MINOR.PATCH with or without a channel (a
\* constraint without a channel compares as the plain release, rank 3, number 0).
EvaluatedFields(c) == IF c.fields <= 2 THEN c.fields ELSE 5

\* The number of key fields the claim states: 3 for MAJOR.MINOR.PATCH.
ClaimedFields(c) == IF c.fields <= 3 THEN c.fields ELSE 5

\* C8 (amended): a version constraint is evaluated on the first L fields of
\* the candidate's key, L = 1 for MAJOR, 2 for MAJOR.MINOR and 5 for
\* MAJOR.MINOR.PATCH with or without channel; the result is the operator
\* applied to these L fields and the constraint's, and two candidates that
\* agree on their first L fields get the same result.
C8_ConstraintOnLeadingFields ==
    chk.done =>
        LET L == EvaluatedFields(cexpr)
        IN  /\ chk.r1 = OpHolds(cexpr.op, Take(PartsKey(cand1), L),
                                Take(PartsKey(cexpr.parts), L))
            /\ Take(PartsKey(cand1), L) = Take(PartsKey(cand2), L) => chk.r1 = chk.r2

\* version<1.1 was evaluated on 1.1.0 and on 1.0.0: patch and channel of the
\* candidates play no part, the minor field decides.
C8_Witness ==
    /\ chk.done
    /\ cexpr = ConstraintInput("<", Parts(FALSE, FALSE, 1, 1, 0, "none", 0), 2)
    /\ cand1 = Plain(1, 1, 10) /\ cand2 = Plain(1, 0, 0)
    /\ ~chk.r1 /\ chk.r2

\* C8 (as claimed): with L = 3 for MAJOR.MINOR.PATCH without channel, candidate
\* fields beyond position L never influence the result.
C8_ClaimedLeadingFields ==
    chk.done =>
        LET L == ClaimedFields(cexpr)
        IN  Take(PartsKey(cand1), L) = Take(PartsKey(cand2), L) => chk.r1 = chk.r2

-----------------------------------------------------------------------------
(* schemata.py: component_schema.  A component document is                  *)
(* [name, repo_url, is_product, releases], releases a list of groups        *)
(* [series, versions], versions a list of [version, sha].                   *)

\* The commit hashes in use; the last two are not 40 lowercase hex digits.
Sha0 == "0000000000000000000000000000000000000000"
Sha1 == "0000000000000000000000000000000000000001"
Sha2 == "0000000000000000000000000000000000000002"
ShaShort == "00000001"
ShaUpper == "000000000000000000000000000000000000000A"

\* Regex(sha_regex): ^[0-9a-f]{40}$, on the hashes in use.
version_sha_schema(sha) == sha \in {Sha0, Sha1, Sha2}

\* A URL is [scheme, host, path], standing for scheme://host/path.
GithubUrl(path) == [scheme |-> "https", host |-> "github.com", path |-> path]

\* Regex(r"^https://github.com/.+")
repo_url_schema(url) ==
    url.scheme = "https" /\ url.host = "github.com" /\ url.path # ""

\* Regex(version_regex)
version_id_schema(version) == version_regex(version).matched

\* version_schema: {"version": version_id_schema, "sha": version_sha_schema}
version_schema(v) == version_id_schema(v.version) /\ version_sha_schema(v.sha)

\* sorted(versions, key=version_key, reverse=True): a stable sort, the
\* greatest key first.  The element at index j comes before the one at index
\* i when its key is greater, or is neither greater nor smaller and j < i.
sorted_versions(versions) ==
    [k \in 1..Len(versions) |->
        versions[CHOOSE i \in 1..Len(versions) :
            k = 1 + Cardinality({j \in 1..Len(versions) :
                \/ TupleLt(version_key(versions[i].version),
                           version_key(versions[j].version))
                \/ /\ j < i
                   /\ ~TupleLt(version_key(versions[j].version),
                               version_key(versions[i].version))})]]

is_sorted_versions(versions) == versions = sorted_versions(versions)

\* is_value_unique(key): as many values as distinct values.
is_series_unique(releases) ==
    \A i, j \in 1..Len(releases) :
        releases[i].series = releases[j].series => i = j

\* is_version_ids_unique: over the versions of all groups.
is_version_ids_unique(releases) ==
    \A i, j \in 1..Len(releases) :
        \A k \in 1..Len(releases[i].versions), l \in 1..Len(releases[j].versions) :
            releases[i].versions[k].version = releases[j].versions[l].version
                => (i = j /\ k = l)

\* component_schema.validate(document) does not raise SchemaError.
component_schema(document) ==
    /\ document.name # ""
    /\ repo_url_schema(document.repo_url)
    /\ document.is_product \in BOOLEAN
    /\ \A i \in 1..Len(document.releases) :
        LET group == document.releases[i]
        IN  /\ group.series # ""
            /\ \A k \in 1..Len(group.versions) : version_schema(group.versions[k])
            /\ is_sorted_versions(group.versions)
    /\ is_series_unique(document.releases)
    /\ is_version_ids_unique(document.releases)

-----------------------------------------------------------------------------
(* component.py: Component.  A component is [name, repo_url, is_product,    *)
(* releases, directory, orig_state]; a release is [version, sha, series].   *)

\* _orig_state = None
None == [none |-> TRUE]

\* vars(self) without _orig_state
current_state(c) ==
    [none |-> FALSE, name |-> c.name, repo_url |-> c.repo_url,
     is_product |-> c.is_product, releases |-> c.releases,
     directory |-> c.directory]

\* Component.__init__ without releases
Component(name, repo_url, is_product, directory) ==
    [name |-> name, repo_url |-> repo_url, is_product |-> is_product,
     releases |-> <<>>, directory |-> directory, orig_state |-> None]

\* The list `front` with x put at position p.
insert_at(front, x, p) ==
    SubSeq(front, 1, p - 1) \o <<x>> \o SubSeq(front, p, Len(front))

\* The sorted list `front` with x put before its first element greater than
\* x, after every element that is not: the place a stable sort gives to the
\* last element of a list.
insort(front, x) ==
    IF \E i \in 1..Len(front) : Release_lt(x, front[i])
    THEN insert_at(front, x,
                   CHOOSE i \in 1..Len(front) :
                       /\ Release_lt(x, front[i])
                       /\ \A j \in 1..(i - 1) : ~Release_lt(x, front[j]))
    ELSE Append(front, x)

\* sorted(releases): a stable sort by Release.__lt__, the smallest first.
RECURSIVE sorted(_)
sorted(releases) ==
    IF Len(releases) = 0 THEN <<>>
    ELSE insort(sorted(SubSeq(releases, 1, Len(releases) - 1)),
                releases[Len(releases)])

\* get_release that looks for the version by its key, not by its string.
get_release_by_key(c, version, predecessor) ==
    LET hits == {i \in 1..Len(c.releases) :
                    version_key(c.releases[i].version) = version_key(version)}
        first == CHOOSE i \in hits : \A j \in hits : i <= j
    IN  IF hits = {}
        THEN [ok |-> FALSE, error |-> "does not exist", release |-> None]
        ELSE IF ~predecessor
        THEN [ok |-> TRUE, error |-> "", release |-> c.releases[first]]
        ELSE IF first = 1
        THEN [ok |-> FALSE, error |-> "does not have a predecessor", release |-> None]
        ELSE [ok |-> TRUE, error |-> "", release |-> c.releases[first - 1]]

\* get_release whose predecessor is looked for within the series of the match.
get_release_within_series(c, version, predecessor) ==
    LET hits == {i \in 1..Len(c.releases) : c.releases[i].version = version}
        first == CHOOSE i \in hits : \A j \in hits : i <= j
        before == {j \in 1..(first - 1) : c.releases[j].series = c.releases[first].series}
    IN  IF hits = {}
        THEN [ok |-> FALSE, error |-> "does not exist", release |-> None]
        ELSE IF ~predecessor
        THEN [ok |-> TRUE, error |-> "", release |-> c.releases[first]]
        ELSE IF before = {}
        THEN [ok |-> FALSE, error |-> "does not have a predecessor", release |-> None]
        ELSE [ok |-> TRUE, error |-> "",
              release |-> c.releases[CHOOSE j \in before : \A k \in before : k <= j]]

\* Component.get_release(version) and get_release(version, predecessor=True):
\* [ok, error, release].
get_release(c, version, predecessor) ==
    LET hits == {i \in 1..Len(c.releases) : c.releases[i].version = version}
        first == CHOOSE i \in hits : \A j \in hits : i <= j
    IN  IF hits = {}
        THEN [ok |-> FALSE, error |-> "does not exist", release |-> None]
        ELSE IF ~predecessor
        THEN [ok |-> TRUE, error |-> "", release |-> c.releases[first]]
        ELSE IF first = 1
        THEN [ok |-> FALSE, error |-> "does not have a predecessor", release |-> None]
        ELSE [ok |-> TRUE, error |-> "", release |-> c.releases[first - 1]]

\* add_release that appends without looking for the version.
add_release_unchecked(c, release) ==
    [ok |-> TRUE, error |-> "",
     component |-> [c EXCEPT !.releases = sorted(c.releases \o <<release>>)]]

\* add_release that does not sort.
add_release_unsorted(c, release) ==
    IF get_release(c, release.version, FALSE).ok
    THEN [ok |-> FALSE, error |-> "already exists", component |-> c]
    ELSE [ok |-> TRUE, error |-> "",
          component |-> [c EXCEPT !.releases = c.releases \o <<release>>]]

\* Component.add_release(release): [ok, error, component].
add_release(c, release) ==
    IF get_release(c, release.version, FALSE).ok
    THEN [ok |-> FALSE, error |-> "already exists", component |-> c]
    ELSE [ok |-> TRUE, error |-> "",
          component |-> [c EXCEPT !.releases = sorted(c.releases \o <<release>>)]]

\* Component.create_release(version, sha, series): Release(self, ...), whose
\* constructor calls add_release.
create_release(c, version, sha, series) ==
    add_release(c, [version |-> version, sha |-> sha, series |-> series])

\* The component after create_release of each element of releases, in order
\* (Component.__init__ with releases), r being the result so far; the first
\* failure is kept.
RECURSIVE create_releases(_, _)
create_releases(r, releases) ==
    IF Len(releases) = 0 \/ ~r.ok THEN r
    ELSE create_releases(
             create_release(r.component, releases[1].version, releases[1].sha,
                            releases[1].series),
             Tail(releases))

\* _is_changed that leaves the releases out of the comparison.
_is_changed_scalars_only(c) ==
    \/ c.orig_state.none
    \/ c.name # c.orig_state.name
    \/ c.repo_url # c.orig_state.repo_url
    \/ c.is_product # c.orig_state.is_product

\* releases == releases of the snapshot: list equality, element by element
\* with Release.__eq__.
releases_eq(x, y) ==
    /\ Len(x) = Len(y)
    /\ \A i \in 1..Len(x) : Release_eq(x[i], y[i])

\* Component._is_changed: current_state != self._orig_state
_is_changed(c) ==
    \/ c.orig_state.none
    \/ c.name # c.orig_state.name
    \/ c.repo_url # c.orig_state.repo_url
    \/ c.is_product # c.orig_state.is_product
    \/ ~releases_eq(c.releases, c.orig_state.releases)
    \/ c.directory # c.orig_state.directory

\* The indices at which a run of consecutive releases of one series starts.
run_starts(releases) ==
    {i \in 1..Len(releases) : i = 1 \/ releases[i].series # releases[i - 1].series}

\* The k-th smallest element of a set of integers.
kth(set, k) == CHOOSE i \in set : Cardinality({j \in set : j < i}) = k - 1

\* The index at which the k-th run ends.
run_end(releases, k) ==
    IF k = Cardinality(run_starts(releases)) THEN Len(releases)
    ELSE kth(run_starts(releases), k + 1) - 1

\* itertools.groupby(releases, attrgetter("series")) as to_dict uses it: one
\* group per run of consecutive releases of the same series.
groupby(releases) ==
    [k \in 1..Cardinality(run_starts(releases)) |->
        [series |-> releases[kth(run_starts(releases), k)].series,
         versions |->
            [m \in 1..(run_end(releases, k) - kth(run_starts(releases), k) + 1) |->
                [version |-> releases[kth(run_starts(releases), k) + m - 1].version,
                 sha |-> releases[kth(run_starts(releases), k) + m - 1].sha]]]]

\* The document to_dict builds, before validation.
to_document(c) ==
    [name |-> c.name, repo_url |-> c.repo_url, is_product |-> c.is_product,
     releases |-> groupby(c.releases)]

\* self.schema.validate(document): [ok, error, document]; SchemaError when
\* the document is not accepted by component_schema.
validated(document, accepted) ==
    [ok |-> accepted, error |-> IF accepted THEN "" ELSE "SchemaError",
     document |-> document]

validate(document) == validated(document, component_schema(document))

\* Component.to_dict()
to_dict(c) == validate(to_document(c))

\* The list of releases from_file builds from the groups of a document.
RECURSIVE flatten(_)
flatten(groups) ==
    IF Len(groups) = 0 THEN <<>>
    ELSE [k \in 1..Len(groups[1].versions) |->
            [version |-> groups[1].versions[k].version,
             sha |-> groups[1].versions[k].sha,
             series |-> groups[1].series]]
         \o flatten(Tail(groups))

\* component._orig_state = deepcopy(vars(component)), without _orig_state
with_orig_state(built) ==
    [ok |-> built.ok, error |-> built.error,
     component |-> [built.component EXCEPT
                        !.orig_state = current_state(built.component)]]

\* Component.from_file(component_name, component_directory), the directory
\* holding the documents `files` (a function from names to documents):
\* [ok, error, component].
from_file(component_name, component_directory, files) ==
    IF component_name \notin DOMAIN files
    THEN [ok |-> FALSE, error |-> "could not be found", component |-> None]
    ELSE IF ~component_schema(files[component_name])
    THEN [ok |-> FALSE, error |-> "SchemaError", component |-> None]
    ELSE with_orig_state(
             create_releases(
                 [ok |-> TRUE, error |-> "",
                  component |-> Component(files[component_name].name,
                                          files[component_name].repo_url,
                                          files[component_name].is_product,
                                          component_directory)],
                 flatten(files[component_name].releases)))


-----------------------------------------------------------------------------
(* component.py: requirement_from_version_constraints *)

\* The texts of a list of constraint inputs.
Texts(inputs) == [i \in 1..Len(inputs) |-> inputs[i].text]

\* The requirement built from the release found.
requirement_of(component, release) ==
    [name |-> component.name, ref |-> release.version, ref_type |-> "tag",
     repo_url |-> component.repo_url, sha |-> release.sha,
     version |-> release.version]

\* The index of the first release meeting the constraints, from index i
\* upwards; Len(releases) + 1 when there is none.
RECURSIVE first_match_upwards(_, _, _)
first_match_upwards(releases, constraints, i) ==
    IF i > Len(releases) THEN i
    ELSE IF meets_constraints(constraints, releases[i].version) THEN i
    ELSE first_match_upwards(releases, constraints, i + 1)

\* The index of the found release, or the error.
found(component, constraints, i) ==
    IF i \in 1..Len(component.releases)
    THEN [ok |-> TRUE, error |-> "",
          requirement |-> requirement_of(component, component.releases[i])]
    ELSE [ok |-> FALSE, error |-> "has no version matching the constraints",
          requirement |-> None]

\* requirement_from_version_constraints that scans the releases as listed.
requirement_scanning_upwards(component, constraints) ==
    found(component, constraints,
          first_match_upwards(component.releases, constraints, 1))

\* for release in reversed(component.releases): the index of the first
\* release meeting the constraints, from index i downwards; 0 when the loop
\* ends without a break.
RECURSIVE first_match_reversed(_, _, _)
first_match_reversed(releases, constraints, i) ==
    IF i = 0 THEN 0
    ELSE IF meets_constraints(constraints, releases[i].version) THEN i
    ELSE first_match_reversed(releases, constraints, i - 1)

\* requirement_from_version_constraints(component, constraints):
\* [ok, error, requirement], the error being the exception of the else branch.
requirement_from_version_constraints(component, constraints) ==
    found(component, constraints,
          first_match_reversed(component.releases, constraints,
                               Len(component.releases)))


-----------------------------------------------------------------------------
(* component.py: Component.difference.  A dict is a function from its keys; *)
(* the empty dict has the empty domain.                                     *)

EmptyDict == <<>>

IsEmptyDict(d) == DOMAIN d = {}

\* avv in bv
In(avv, bv) == \E i \in 1..Len(bv) : bv[i] = avv

\* [avv for avv in av if avv not in bv]
not_in(av, bv) == SelectSeq(av, LAMBDA avv : ~In(avv, bv))

\* release_pairs[series][1] for a series that bv has: the last group of bv
\* with that series.
paired(series, bv) ==
    bv[CHOOSE i \in 1..Len(bv) :
        /\ bv[i].series = series
        /\ \A j \in (i + 1)..Len(bv) : bv[j].series # series]

\* _difference(avv, bvv) for the two groups of one series, bvv not {}: the
\* series are equal; the versions lists are skipped when equal, and otherwise
\* give the elements of avv's list that are not in bvv's.
value_diff_versions(value_diff) ==
    IF value_diff = <<>> THEN EmptyDict ELSE [versions |-> value_diff]

versions_difference(avv, bvv) ==
    IF avv.versions = bvv.versions THEN EmptyDict
    ELSE value_diff_versions(not_in(avv.versions, bvv.versions))

\* _difference(avv, bvv) for the pair of the group avv of a: every key of avv
\* when b has no group of the series (bvv = {}).
group_difference(avv, bv) ==
    IF \E i \in 1..Len(bv) : bv[i].series = avv.series
    THEN versions_difference(avv, paired(avv.series, bv))
    ELSE avv

\* value_diff of the key releases: the non-empty differences of the pairs,
\* in the order of the series in av (the pairs of series that only bv has
\* have avv = {} and give {}).
releases_difference(av, bv) ==
    SelectSeq([i \in 1..Len(av) |-> group_difference(av[i], bv)],
              LAMBDA d : ~IsEmptyDict(d))

\* _difference that reports a differing scalar with b's value.
difference_with_the_value_of_b(a, b, value_diff) ==
    [k \in {k \in {"name", "repo_url", "is_product"} : a[k] # b[k]}
           \cup (IF a.releases # b.releases /\ value_diff # <<>>
                 THEN {"releases"} ELSE {}) |->
        IF k = "releases" THEN value_diff ELSE b[k]]

\* _difference(a, b) for two component documents, value_diff being the
\* difference of their releases: a scalar of a that is not b's is reported
\* with a's value; the releases are skipped when equal, and reported when
\* value_diff is not empty.
difference_with(a, b, value_diff) ==
    [k \in {k \in {"name", "repo_url", "is_product"} : a[k] # b[k]}
           \cup (IF a.releases # b.releases /\ value_diff # <<>>
                 THEN {"releases"} ELSE {}) |->
        IF k = "releases" THEN value_diff ELSE a[k]]

_difference(a, b) ==
    difference_with(a, b, releases_difference(a.releases, b.releases))

\* _difference(self.to_dict(), other.to_dict()), given the two results of
\* to_dict.
difference_of(a, b) ==
    IF ~a.ok \/ ~b.ok
    THEN [ok |-> FALSE, error |-> "SchemaError", value |-> EmptyDict]
    ELSE [ok |-> TRUE, error |-> "", value |-> _difference(a.document, b.document)]

\* a.difference(b): [ok, error, value]; SchemaError when to_dict of either
\* component raises it.
difference(a, b) == difference_of(to_dict(a), to_dict(b))

-----------------------------------------------------------------------------
(* component.py: load_all_components.  The repository's commits are a       *)
(* function from commit names to trees; a tree is [dir, files]: whether the *)
(* components directory exists, and its documents by file name without the  *)
(* .yml ending.                                                             *)

\* os.listdir(component_dir) with the ending cut off each name, in the order
\* `names` for the files that exist.
listdir(files, names) == SelectSeq(names, LAMBDA name : name \in DOMAIN files)

\* components.append(component), or the exception of from_file.
appended(acc, r) ==
    IF r.ok THEN [acc EXCEPT !.components = Append(@, r.component)]
    ELSE [ok |-> FALSE, error |-> r.error, components |-> <<>>]

\* The loop over the listed names, acc being [ok, error, components] so
\* far: the first exception of from_file ends it.
RECURSIVE from_files(_, _, _, _)
from_files(files, names, component_dir, acc) ==
    IF Len(names) = 0 \/ ~acc.ok THEN acc
    ELSE from_files(files, Tail(names), component_dir,
                    appended(acc, from_file(names[1], component_dir, files)))

\* load_all_components that returns without setting HEAD back.
loaded_and_left(results, start_ref, commitish) ==
    [ok |-> results.ok, error |-> IF results.ok THEN "" ELSE results.error,
     head |-> commitish,
     components |-> IF results.ok THEN results.components ELSE <<>>]

\* What follows the loop of load_all_components: an exception has left the
\* function with HEAD at commitish; after the loop HEAD is set back to
\* start_ref.
loaded_and_restored(results, start_ref, commitish) ==
    IF results.ok
    THEN [ok |-> TRUE, error |-> "", head |-> start_ref,
          components |-> results.components]
    ELSE [ok |-> FALSE, error |-> results.error, head |-> commitish,
          components |-> <<>>]

\* load_all_components(component_dir, repo_dir, commitish) in the repository
\* with the given commits and HEAD at start_ref: [ok, error, head,
\* components].  repo.commit raises for a name that is no commit, before HEAD
\* is moved; os.listdir raises when the directory does not exist.
load_all_components(commits, names, start_ref, commitish) ==
    IF commitish \notin DOMAIN commits
    THEN [ok |-> FALSE, error |-> "BadName", head |-> start_ref, components |-> <<>>]
    ELSE IF ~commits[commitish].dir
    THEN [ok |-> FALSE, error |-> "FileNotFoundError", head |-> commitish,
          components |-> <<>>]
    ELSE loaded_and_restored(
             from_files(commits[commitish].files,
                        listdir(commits[commitish].files, names), "components",
                        [ok |-> TRUE, error |-> "", components |-> <<>>]),
             start_ref, commitish)

-----------------------------------------------------------------------------
(* schemata.py: comparison_added_version_schema and                         *)
(* comparison_added_component_schema; cli.py: compare                       *)

\* One group of added.releases: an optional non-empty series, and versions,
\* a list of one version_schema.
added_group_schema(group) ==
    /\ DOMAIN group \subseteq {"series", "versions"}
    /\ "versions" \in DOMAIN group
    /\ "series" \in DOMAIN group => group.series # ""
    /\ \A k \in 1..Len(group.versions) : version_schema(group.versions[k])
    /\ Len(group.versions) = 1

\* {"releases": And([group], lambda rs: len(rs) == 1)}
added_version_schema(added) ==
    /\ DOMAIN added = {"releases"}
    /\ \A i \in 1..Len(added.releases) : added_group_schema(added.releases[i])
    /\ Len(added.releases) = 1

\* comparison_added_version_schema.validate(comparison) does not raise.
comparison_added_version_schema(comparison) ==
    /\ \A name \in DOMAIN comparison :
        /\ name # ""
        /\ added_version_schema(comparison[name].added)
        /\ IsEmptyDict(comparison[name].deleted)
    /\ Cardinality(DOMAIN comparison) = 1

\* And(component_schema) on the added part of the comparison.
added_component_schema(added) ==
    /\ DOMAIN added = {"name", "repo_url", "is_product", "releases"}
    /\ component_schema(added)

\* comparison_added_component_schema.validate(comparison) does not raise.
comparison_added_component_schema(comparison) ==
    /\ \A name \in DOMAIN comparison :
        /\ name # ""
        /\ added_component_schema(comparison[name].added)
        /\ IsEmptyDict(comparison[name].deleted)
    /\ Cardinality(DOMAIN comparison) = 1

\* to_compare[name][0] or [1]: whether a component of the list has the name,
\* and the last one that has it.
has(components, name) == \E i \in 1..Len(components) : components[i].name = name

named(components, name) ==
    components[CHOOSE i \in 1..Len(components) :
        /\ components[i].name = name
        /\ \A j \in (i + 1)..Len(components) : components[j].name # name]

\* The keys of to_compare in the order of their insertion, a name as often
\* as components have it.
names_of(from_, to) ==
    [i \in 1..Len(from_) |-> from_[i].name] \o [i \in 1..Len(to) |-> to[i].name]

\* to_dict as one part of the comparison: [ok, error, value].
whole_of(d) ==
    [ok |-> d.ok, error |-> d.error,
     value |-> IF d.ok THEN d.document ELSE EmptyDict]

whole(c) == whole_of(to_dict(c))

Nothing == [ok |-> TRUE, error |-> "", value |-> EmptyDict]

\* The deleted and the added part for one name of to_compare.
deleted_part(from_, to, name) ==
    IF ~has(to, name) THEN whole(named(from_, name))
    ELSE IF ~has(from_, name) THEN Nothing
    ELSE difference(named(from_, name), named(to, name))

added_part(from_, to, name) ==
    IF ~has(to, name) THEN Nothing
    ELSE IF ~has(from_, name) THEN whole(named(to, name))
    ELSE difference(named(to, name), named(from_, name))

\* The comparison acc with the parts of one more name: SchemaError when
\* to_dict raised it; no entry when both parts are empty.
with_parts(acc, name, added, deleted) ==
    IF ~deleted.ok \/ ~added.ok
    THEN [ok |-> FALSE, error |-> "SchemaError", value |-> EmptyDict]
    ELSE IF IsEmptyDict(added.value) /\ IsEmptyDict(deleted.value) THEN acc
    ELSE [acc EXCEPT !.value =
              [n \in DOMAIN acc.value \cup {name} |->
                  IF n = name THEN [added |-> added.value, deleted |-> deleted.value]
                  ELSE acc.value[n]]]

\* for name, (f, t) in to_compare.items(), from the i-th name on, acc being
\* [ok, error, value] so far.
RECURSIVE compare_names(_, _, _, _, _)
compare_names(from_, to, names, i, acc) ==
    IF i > Len(names) \/ ~acc.ok THEN acc
    ELSE IF \E j \in 1..(i - 1) : names[j] = names[i]
    THEN compare_names(from_, to, names, i + 1, acc)
    ELSE compare_names(from_, to, names, i + 1,
                       with_parts(acc, names[i], added_part(from_, to, names[i]),
                                  deleted_part(from_, to, names[i])))

\* The comparison of the two lists of components: [ok, error, value], value
\* the dict from names to [added, deleted].
comparison_of(from_, to) ==
    compare_names(from_, to, names_of(from_, to), 1,
                  [ok |-> TRUE, error |-> "", value |-> EmptyDict])

\* What compare leaves: [ok, error, head, comparison, output].
Failed(error, head_) ==
    [ok |-> FALSE, error |-> error, head |-> head_, comparison |-> EmptyDict,
     output |-> None]

the_name(comparison) == CHOOSE name \in DOMAIN comparison : TRUE

\* The output of compare for the comparison and the verify mode.
verified(comparison, to, verify, head_) ==
    IF verify = "release"
    THEN IF ~comparison_added_version_schema(comparison)
         THEN [ok |-> FALSE, head |-> head_, comparison |-> comparison, output |-> None,
               error |-> "do not represent the addition of a new release"]
         ELSE [ok |-> TRUE, error |-> "", head |-> head_, comparison |-> comparison,
               output |-> get_release(
                   named(to, the_name(comparison)),
                   comparison[the_name(comparison)].added.releases[1].versions[1].version,
                   FALSE).release]
    ELSE IF verify = "registration"
    THEN IF ~comparison_added_component_schema(comparison)
         THEN [ok |-> FALSE, head |-> head_, comparison |-> comparison, output |-> None,
               error |-> "do not represent the registration of a new component"]
         ELSE [ok |-> TRUE, error |-> "", head |-> head_, comparison |-> comparison,
               output |-> named(to, the_name(comparison))]
    ELSE [ok |-> TRUE, error |-> "", head |-> head_, comparison |-> comparison,
          output |-> comparison]

compared(c, to, verify, head_) ==
    IF ~c.ok THEN Failed(c.error, head_)
    ELSE verified(c.value, to, verify, head_)

compare_loaded(from_, t, verify) ==
    IF ~t.ok THEN Failed(t.error, t.head)
    ELSE compared(comparison_of(from_, t.components), t.components, verify, t.head)

compare_from(commits, names, f, to_ref, verify) ==
    IF ~f.ok THEN Failed(f.error, f.head)
    ELSE compare_loaded(f.components,
                        load_all_components(commits, names, f.head, to_ref), verify)

\* compare(releases_dir, components_dir, from=from_ref, to=to_ref,
\* verify=verify) in the repository with the given commits and HEAD at
\* start_ref.
compare(commits, names, start_ref, from_ref, to_ref, verify) ==
    compare_from(commits, names,
                 load_all_components(commits, names, start_ref, from_ref),
                 to_ref, verify)


-----------------------------------------------------------------------------
(* schemata.py: the constraints of a dependency.  Constraint expressions    *)
(* are sequences of characters without line breaks.                         *)

BranchPrefix == <<"b", "r", "a", "n", "c", "h", "=", "=">>

\* Regex(branch_constraint_regex): ^branch==(?P<branch_name>.+)$
branch_constraint_regex(s) ==
    IF StartsWith(s, 1, BranchPrefix) /\ Len(s) > Len(BranchPrefix)
    THEN [matched |-> TRUE, branch_name |-> SubSeq(s, Len(BranchPrefix) + 1, Len(s))]
    ELSE [matched |-> FALSE, branch_name |-> NoGroup]

\* branch_constraints_schema without the condition on the length of the list.
branch_constraints_of_any_length(constraints) ==
    \A i \in 1..Len(constraints) : branch_constraint_regex(constraints[i]).matched

\* branch_constraints_schema.validate(constraints) does not raise:
\* And([Regex(branch_constraint_regex)], lambda cs: len(cs) == 1)
branch_constraints_schema(constraints) ==
    /\ \A i \in 1..Len(constraints) : branch_constraint_regex(constraints[i]).matched
    /\ Len(constraints) = 1

\* constraints_schema: Or([Regex(version_constraint_regex)],
\* branch_constraints_schema)
constraints_schema(constraints) ==
    \/ \A i \in 1..Len(constraints) : version_constraint_regex(constraints[i]).matched
    \/ branch_constraints_schema(constraints)

\* update_requirements: the try/except/else around
\* branch_constraints_schema.validate(constraints) that chooses between
\* requirement_from_branch_constraints and
\* requirement_from_version_constraints.
requirement_path(constraints) ==
    IF branch_constraints_schema(constraints) THEN "branch" ELSE "version"

-----------------------------------------------------------------------------
(* component.py: Component.to_file and save_data.  The files of the         *)
(* components directory are a function from file names (without .yml) to    *)
(* the documents they hold: yaml.dump writes strings, booleans, lists and   *)
(* dicts so that yaml.safe_load reads the same values back.                 *)

\* save_data(filepath, data, old_filepath): the file is written, and then
\* the old file, if one is named, removed.
save_data(files, name, data, old_name) ==
    [n \in (DOMAIN files \cup {name}) \ (IF old_name = "" THEN {} ELSE {old_name}) |->
        IF n = name THEN data ELSE files[n]]

\* orig_name of to_file when it is not that of the component; "" stands for
\* old_filepath = None.
old_filename(c) ==
    IF c.orig_state.none THEN ""
    ELSE IF c.orig_state.name # "" /\ c.name # c.orig_state.name
    THEN c.orig_state.name
    ELSE ""

\* save_data(filepath, self.to_dict(), old_filepath), d being the result of
\* to_dict: its SchemaError is raised before save_data is called; os.remove
\* raises when the old file is not there, after the new one was written.
saved(c, files, d, old_name) ==
    IF ~d.ok
    THEN [ok |-> FALSE, error |-> "SchemaError", files |-> files, writes |-> 0]
    ELSE IF old_name # "" /\ old_name \notin DOMAIN files
    THEN [ok |-> FALSE, error |-> "FileNotFoundError", writes |-> 1,
          files |-> save_data(files, c.name, d.document, "")]
    ELSE [ok |-> TRUE, error |-> "", writes |-> 1,
          files |-> save_data(files, c.name, d.document, old_name)]

\* Component.to_file() with the directory holding `files`: [ok, error, files,
\* writes], writes being the number of calls of save_data.
to_file(c, files) ==
    IF ~_is_changed(c)
    THEN [ok |-> TRUE, error |-> "", files |-> files, writes |-> 0]
    ELSE saved(c, files, to_dict(c), old_filename(c))


-----------------------------------------------------------------------------
(* A Component object in use: constructed or loaded, then changed *)

\* The most releases a component is given.
MaxReleases == 3

ComponentsDir == "components"

Url1 == GithubUrl("rcbops/test1")
Url2 == GithubUrl("rcbops/test2")

Names == {"test1", "test2"}

\* The directory of test_is_changed_from_file and test_from_file (test1 with
\* 1.0.0 in the series first), and a component with two series.
StoredDocuments ==
    [n \in Names |->
        IF n = "test1"
        THEN [name |-> "test1", repo_url |-> Url1, is_product |-> FALSE,
              releases |-> <<[series |-> "first", versions |->
                  <<[version |-> Plain(1, 0, 0).text, sha |-> Sha0]>>]>>]
        ELSE [name |-> "test2", repo_url |-> Url2, is_product |-> TRUE,
              releases |-> <<[series |-> "first", versions |->
                  <<[version |-> Plain(1, 1, 0).text, sha |-> Sha1]>>],
                             [series |-> "second", versions |->
                  <<[version |-> Plain(2, 0, 0).text, sha |-> Sha2]>>]>>]]

\* The releases handed to create_release.
ReleaseInputs ==
    { [version |-> Plain(1, 0, 0).text, sha |-> Sha0, series |-> "first"],
      [version |-> Plain(1, 0, 0).text, sha |-> Sha1, series |-> "second"],
      [version |-> WithText(Parts(TRUE, FALSE, 1, 0, 0, "none", 0)).text,
       sha |-> Sha1, series |-> "first"],
      [version |-> Plain(1, 1, 0).text, sha |-> Sha1, series |-> "first"],
      [version |-> Plain(1, 1, 10).text, sha |-> Sha2, series |-> "first"],
      [version |-> Pre(2, 0, 0, "rc", 1).text, sha |-> Sha2, series |-> "second"],
      [version |-> Plain(2, 0, 0).text, sha |-> Sha0, series |-> "second"],
      [version |-> Plain(10, 0, 0).text, sha |-> Sha1, series |-> "first"] }

NotLoaded ==
    [from_file |-> FALSE, name |-> "", repo_url |-> Url1, is_product |-> FALSE,
     added |-> 0]

InitComponent ==
    /\ \E n \in Names, u \in {Url1, Url2}, p \in BOOLEAN :
        comp = Component(n, u, p, ComponentsDir)
    /\ stored = StoredDocuments
    /\ last = NoOperation
    /\ loaded = NotLoaded
    /\ IdleExcept("component")

\* What an operation leaves in `last`.
Operation(op, r, version) ==
    [op |-> op, ok |-> r.ok, error |-> r.error, version |-> version,
     before |-> comp.releases, was_changed |-> _is_changed(comp)]

Done == [ok |-> TRUE, error |-> ""]

\* component = Component.from_file(name, directory)
FromFile(name) ==
    \E r \in {from_file(name, ComponentsDir, stored)} :
        /\ comp' = IF r.ok THEN r.component ELSE comp
        /\ loaded' = IF r.ok
                     THEN [from_file |-> TRUE, name |-> r.component.name,
                           repo_url |-> r.component.repo_url,
                           is_product |-> r.component.is_product, added |-> 0]
                     ELSE loaded
        /\ last' = Operation("from_file", r, <<>>)
        /\ UNCHANGED <<stored, notComponent>>

\* component.create_release(version, sha, series)
CreateRelease(release) ==
    \E r \in {create_release(comp, release.version, release.sha, release.series)} :
        /\ Len(comp.releases) < MaxReleases \/ ~r.ok
        /\ comp' = r.component
        /\ loaded' = IF r.ok THEN [loaded EXCEPT !.added = @ + 1] ELSE loaded
        /\ last' = Operation("create_release", r, release.version)
        /\ UNCHANGED <<stored, notComponent>>

\* component.name = name
SetName(name) ==
    /\ comp' = [comp EXCEPT !.name = name]
    /\ last' = Operation("set_name", Done, <<>>)
    /\ UNCHANGED <<stored, loaded, notComponent>>

\* component.repo_url = repo_url
SetRepoUrl(repo_url) ==
    /\ comp' = [comp EXCEPT !.repo_url = repo_url]
    /\ last' = Operation("set_repo_url", Done, <<>>)
    /\ UNCHANGED <<stored, loaded, notComponent>>

\* component.is_product = is_product
SetIsProduct(is_product) ==
    /\ comp' = [comp EXCEPT !.is_product = is_product]
    /\ last' = Operation("set_is_product", Done, <<>>)
    /\ UNCHANGED <<stored, loaded, notComponent>>

NextComponent ==
    \/ \E name \in Names \cup {"absent"} : FromFile(name)
    \/ \E release \in ReleaseInputs : CreateRelease(release)
    \/ \E name \in Names : SetName(name)
    \/ \E repo_url \in {Url1, Url2} : SetRepoUrl(repo_url)
    \/ \E is_product \in BOOLEAN : SetIsProduct(is_product)

SpecComponent == InitComponent /\ [][NextComponent]_vars

-----------------------------------------------------------------------------
(* Properties of a Component's releases and of its change detection *)

HasVersion(releases, version) ==
    \E i \in 1..Len(releases) : releases[i].version = version

\* The parts a version text was written from.
PartsOf(text) == CHOOSE p \in VersionInputs : p.text = text

\* C4: create_release (add_release) of a release whose version id is that of
\* a release already on the component fails with the already-exists error and
\* leaves the release list as it was.
C4_DuplicateVersionRejected ==
    (last.op = "create_release" /\ HasVersion(last.before, last.version)) =>
        /\ ~last.ok
        /\ last.error = "already exists"
        /\ comp.releases = last.before

\* 1.0.0 was on the component with one sha and series, and a create_release
\* of 1.0.0 has failed on a component of two or more releases.
C4_Witness ==
    /\ last.op = "create_release" /\ ~last.ok
    /\ last.version = Plain(1, 0, 0).text
    /\ \E i \in 1..Len(comp.releases) :
        /\ comp.releases[i] = [version |-> Plain(1, 0, 0).text, sha |-> Sha0,
                               series |-> "first"]
    /\ Len(comp.releases) >= 2

\* C5: whatever create_release calls were made, no two releases of the list
\* have the same version id and the list ascends in the version key.
C5_ReleasesUniqueAndAscending ==
    \A i, j \in 1..Len(comp.releases) :
        i < j =>
            /\ comp.releases[i].version # comp.releases[j].version
            /\ ~LexLess(PartsKey(PartsOf(comp.releases[j].version)),
                        PartsKey(PartsOf(comp.releases[i].version)))

\* Three releases of two series, and a create_release has just failed.
C5_Witness ==
    /\ Len(comp.releases) = 3
    /\ comp.releases[1].series # comp.releases[2].series
    /\ last.op = "create_release" /\ ~last.ok
    /\ LexLess(PartsKey(PartsOf(comp.releases[1].version)),
               PartsKey(PartsOf(comp.releases[3].version)))

\* C10: _is_changed is true exactly when the component was never loaded, or a
\* release was added since from_file, or its name, repo_url or is_product is
\* not the loaded one; it is false right after from_file and always true for
\* a component that was constructed.
C10_ChangedIffDiffersFromLoaded ==
    /\ _is_changed(comp) <=>
        \/ ~loaded.from_file
        \/ loaded.added > 0
        \/ comp.name # loaded.name
        \/ comp.repo_url # loaded.repo_url
        \/ comp.is_product # loaded.is_product
    /\ (last.op = "from_file" /\ last.ok) => ~_is_changed(comp)
    /\ ~loaded.from_file => _is_changed(comp)

\* A loaded component was changed and, by setting its name, is unchanged again.
C10_Witness ==
    /\ loaded.from_file
    /\ last.op = "set_name" /\ last.was_changed
    /\ ~_is_changed(comp)


-----------------------------------------------------------------------------
(* Requirement resolution: requirement_from_version_constraints on a        *)
(* component and a list of constraint expressions                           *)

\* The most constraint expressions in a list.
MaxConstraints == 2

\* The versions of the component of test_requirement_from_version_constraints.
TestVersions ==
    << Plain(0, 0, 1), Plain(1, 0, 0), Plain(1, 0, 1), Plain(1, 1, 0),
       Plain(1, 1, 1), Pre(2, 0, 0, "alpha", 1), Pre(2, 0, 0, "beta", 1),
       Pre(2, 0, 0, "beta", 2), Pre(2, 0, 0, "rc", 1), Pre(2, 0, 0, "rc", 2),
       Plain(2, 0, 0), Plain(10, 0, 0) >>

Range(seq) == {seq[i] : i \in 1..Len(seq)}

\* One release per version, all in the series first.
ReleasesOf(versions) ==
    [i \in 1..Len(versions) |->
        [version |-> versions[i].text,
         sha |-> IF i % 3 = 0 THEN Sha0 ELSE IF i % 3 = 1 THEN Sha1 ELSE Sha2,
         series |-> "first"]]

\* Component(name="test1", ..., releases=releases)
Constructed(releases) ==
    create_releases([ok |-> TRUE, error |-> "",
                     component |-> Component("test1", Url1, FALSE, ComponentsDir)],
                    releases).component

\* The component of the test; one given its releases newest first, with a
\* version written in two ways; one of pre-releases only; one without releases.
ResolveComponents ==
    { Constructed(ReleasesOf(TestVersions)),
      Constructed(ReleasesOf(<< Plain(10, 0, 0), Plain(2, 0, 0), Plain(1, 0, 0),
                                WithText(Parts(TRUE, FALSE, 1, 0, 0, "none", 0)),
                                Plain(1, 1, 10), Plain(1, 1, 2) >>)),
      Constructed(ReleasesOf(<< Pre(2, 0, 0, "rc", 1), Pre(2, 0, 0, "alpha", 1) >>)),
      Constructed(<<>>) }

Constraint(op, maj, min, pat, ch, n, fields) ==
    ConstraintInput(op, Parts(FALSE, FALSE, maj, min, pat, ch, n), fields)

\* The constraints of the test, and others with the remaining operators.
ResolveConstraints ==
    { Constraint("<", 10, 0, 0, "none", 0, 3),
      Constraint("<", 2, 0, 0, "none", 0, 1),
      Constraint("<", 1, 1, 0, "none", 0, 2),
      Constraint("<=", 1, 1, 0, "none", 0, 2),
      Constraint("<", 2, 0, 0, "beta", 1, 4),
      Constraint("<", 2, 0, 0, "rc", 2, 4),
      Constraint(">=", 1, 1, 0, "none", 0, 2),
      Constraint("!=", 10, 0, 0, "none", 0, 3),
      Constraint("==", 2, 0, 0, "none", 0, 1),
      Constraint(">", 10, 0, 0, "none", 0, 1) }

InitResolve ==
    /\ rcomp \in ResolveComponents
    /\ cons = <<>>
    /\ req = NotResolved
    /\ IdleExcept("resolve")

\* One more constraint expression in the list.
Constrain(c) ==
    /\ Len(cons) < MaxConstraints
    /\ cons' = Append(cons, c)
    /\ req' = NotResolved
    /\ UNCHANGED <<rcomp, notResolve>>

\* requirement = requirement_from_version_constraints(component, constraints)
Resolve ==
    \E r \in {requirement_from_version_constraints(rcomp, Texts(cons))} :
        /\ req' = [done |-> TRUE, ok |-> r.ok, error |-> r.error,
                   requirement |-> r.requirement]
        /\ UNCHANGED <<rcomp, cons, notResolve>>

NextResolve ==
    \/ \E c \in ResolveConstraints : Constrain(c)
    \/ Resolve

SpecResolve == InitResolve /\ [][NextResolve]_vars

\* The parts a version text of a resolved component was written from.
PartsOfText(text) ==
    CHOOSE p \in VersionInputs \cup Range(TestVersions) : p.text = text

\* The candidate with the parts p satisfies the constraint c.
Satisfies(c, p) ==
    OpHolds(c.op, Take(PartsKey(p), EvaluatedFields(c)),
            Take(PartsKey(c.parts), EvaluatedFields(c)))

\* The indices of the releases that satisfy every constraint of the list.
Qualifying(releases, constraints) ==
    { i \in 1..Len(releases) :
        \A k \in 1..Len(constraints) :
            Satisfies(constraints[k], PartsOfText(releases[i].version)) }

ReleaseKey(release) == PartsKey(PartsOfText(release.version))

TestComponent == Constructed(ReleasesOf(TestVersions))

Resolved(constraints, version) ==
    (rcomp = TestComponent /\ cons = constraints) =>
        req.ok /\ req.requirement.version = version.text

\* C1: requirement_from_version_constraints returns a release that satisfies
\* every constraint of the list and whose version key no satisfying release
\* of the component exceeds, and fails only when no release satisfies them
\* all; with the empty list it returns the newest (last) release; on the
\* component of the test, [] gives 10.0.0, [version<10.0.0] 2.0.0,
\* [version<2] 1.1.1, [version<1.1] 1.0.1 and [version<=1.1] 1.1.1.
C1_HighestSatisfyingRelease ==
    req.done =>
        /\ req.ok <=> Qualifying(rcomp.releases, cons) # {}
        /\ req.ok =>
            \E i \in Qualifying(rcomp.releases, cons) :
                /\ req.requirement.version = rcomp.releases[i].version
                /\ req.requirement.sha = rcomp.releases[i].sha
                /\ \A j \in Qualifying(rcomp.releases, cons) :
                    ~LexLess(ReleaseKey(rcomp.releases[i]),
                             ReleaseKey(rcomp.releases[j]))
        /\ (cons = <<>> /\ Len(rcomp.releases) > 0) =>
            req.requirement.version = rcomp.releases[Len(rcomp.releases)].version
        /\ Resolved(<<>>, Plain(10, 0, 0))
        /\ Resolved(<<Constraint("<", 10, 0, 0, "none", 0, 3)>>, Plain(2, 0, 0))
        /\ Resolved(<<Constraint("<", 2, 0, 0, "none", 0, 1)>>, Plain(1, 1, 1))
        /\ Resolved(<<Constraint("<", 1, 1, 0, "none", 0, 2)>>, Plain(1, 0, 1))
        /\ Resolved(<<Constraint("<=", 1, 1, 0, "none", 0, 2)>>, Plain(1, 1, 1))
        /\ Resolved(<<Constraint("<", 2, 0, 0, "beta", 1, 4)>>, Pre(2, 0, 0, "alpha", 1))
        /\ Resolved(<<Constraint("<", 2, 0, 0, "rc", 2, 4)>>, Pre(2, 0, 0, "rc", 1))

\* On the twelve releases of the test, [version>=1.1, version<2] has resolved
\* to 1.1.1: 1.1.0 satisfies both too, and each of 2.0.0 and 1.0.1 satisfies
\* one of the two only.
C1_Witness ==
    /\ rcomp = TestComponent
    /\ Len(rcomp.releases) = 12
    /\ cons = << Constraint(">=", 1, 1, 0, "none", 0, 2),
                 Constraint("<", 2, 0, 0, "none", 0, 1) >>
    /\ req.done /\ req.ok
    /\ req.requirement.version = Plain(1, 1, 1).text


-----------------------------------------------------------------------------
(* Component.difference on two components *)

R(version, sha, series) == [version |-> version.text, sha |-> sha, series |-> series]

\* The two components of test_difference; components with a second series,
\* with two series that interleave in version order, with another sha for
\* 1.0.0, without releases, with another is_product, with another name, with
\* another repo_url, and with all three and the releases different.
DifferenceComponents ==
    { Constructed(<<R(Plain(1, 0, 0), Sha0, "first")>>),
      Constructed(<<R(Plain(1, 0, 0), Sha0, "first"), R(Plain(1, 1, 0), Sha1, "first")>>),
      Constructed(<<R(Plain(1, 0, 0), Sha0, "first"), R(Plain(2, 0, 0), Sha2, "second")>>),
      Constructed(<<R(Plain(1, 1, 0), Sha1, "first"), R(Plain(2, 0, 0), Sha2, "second")>>),
      Constructed(<<R(Plain(2, 0, 0), Sha2, "second")>>),
      Constructed(<<R(Plain(1, 0, 0), Sha1, "first")>>),
      Constructed(<<R(Plain(1, 0, 0), Sha0, "second")>>),
      Constructed(<<R(Plain(1, 0, 0), Sha0, "first"), R(Plain(1, 1, 0), Sha1, "second"),
                    R(Plain(2, 0, 0), Sha2, "first")>>),
      Constructed(<<R(Plain(1, 0, 0), Sha0, "first"), R(Plain(1, 1, 0), Sha1, "second"),
                    R(Plain(10, 0, 0), Sha2, "third")>>),
      Constructed(<<>>),
      [Constructed(<<R(Plain(1, 0, 0), Sha0, "first")>>) EXCEPT !.is_product = TRUE],
      [Constructed(<<R(Plain(1, 0, 0), Sha0, "first")>>) EXCEPT !.name = "test2"],
      [Constructed(<<R(Plain(1, 0, 0), Sha0, "first")>>) EXCEPT !.repo_url = Url2],
      [Constructed(<<R(Plain(2, 0, 0), Sha2, "second")>>) EXCEPT
          !.name = "test2", !.repo_url = Url2, !.is_product = TRUE] }

InitDifference ==
    /\ self \in DifferenceComponents
    /\ other \in DifferenceComponents
    /\ diff = NotComputed
    /\ IdleExcept("difference")

\* diff = self.difference(other)
Difference ==
    \E r \in {difference(self, other)} :
        /\ ~diff.done
        /\ diff' = [done |-> TRUE, ok |-> r.ok, error |-> r.error, value |-> r.value]
        /\ UNCHANGED <<self, other, notDifference>>

NextDifference == Difference

SpecDifference == InitDifference /\ [][NextDifference]_vars

\* The series of a release list, in the order of their first appearance.
RECURSIVE SeriesOf(_)
SeriesOf(releases) ==
    IF Len(releases) = 0 THEN <<>>
    ELSE IF \E i \in 1..(Len(releases) - 1) : releases[i].series = releases[Len(releases)].series
    THEN SeriesOf(SubSeq(releases, 1, Len(releases) - 1))
    ELSE Append(SeriesOf(SubSeq(releases, 1, Len(releases) - 1)),
                releases[Len(releases)].series)

Entry(release) == [version |-> release.version, sha |-> release.sha]

\* The entries of the series in a that no release of the series in b equals.
MissingEntries(a, b, series) ==
    [i \in 1..Len(SelectSeq(a, LAMBDA x :
            x.series = series
            /\ ~\E j \in 1..Len(b) : b[j].series = series /\ Entry(b[j]) = Entry(x))) |->
        Entry(SelectSeq(a, LAMBDA x :
            x.series = series
            /\ ~\E j \in 1..Len(b) : b[j].series = series /\ Entry(b[j]) = Entry(x))[i])]

\* The group reported for a series of a: labelled when b lacks the series.
ReportedGroup(a, b, series) ==
    IF \E j \in 1..Len(b) : b[j].series = series
    THEN [versions |-> MissingEntries(a, b, series)]
    ELSE [series |-> series, versions |-> MissingEntries(a, b, series)]

ReportedGroups(a, b) ==
    SelectSeq([k \in 1..Len(SeriesOf(a)) |-> ReportedGroup(a, b, SeriesOf(a)[k])],
              LAMBDA g : g.versions # <<>>)

ExpectedDifference(a, b) ==
    IF ReportedGroups(a, b) = <<>> THEN EmptyDict
    ELSE [releases |-> ReportedGroups(a, b)]

SameDict(d, e) ==
    /\ DOMAIN d = DOMAIN e
    /\ \A k \in DOMAIN d : d[k] = e[k]

ComponentA == Constructed(<<R(Plain(1, 0, 0), Sha0, "first")>>)

ComponentB ==
    Constructed(<<R(Plain(1, 0, 0), Sha0, "first"), R(Plain(1, 1, 0), Sha1, "first")>>)

\* C9 (as claimed): for two components with equal name, repo_url and
\* is_product, a.difference(b) returns the entries of each series of a that
\* the same series of b lacks, in a labelled group when b lacks the series
\* and an unlabelled one otherwise, and the empty mapping when there are
\* none; B.difference(A) is {releases: [{versions: [1.1.0]}]} and
\* A.difference(B) is {}.
C9_DifferenceReportsMissingEntries ==
    (/\ diff.done
     /\ self.name = other.name /\ self.repo_url = other.repo_url
     /\ self.is_product = other.is_product) =>
        /\ diff.ok
        /\ SameDict(diff.value, ExpectedDifference(self.releases, other.releases))
        /\ (self = ComponentB /\ other = ComponentA) =>
            SameDict(diff.value,
                     [releases |-> <<[versions |->
                         <<[version |-> Plain(1, 1, 0).text, sha |-> Sha1]>>]>>])
        /\ (self = ComponentA /\ other = ComponentB) => IsEmptyDict(diff.value)

\* C9, where to_dict accepts both components: the same statement for the
\* pairs on which difference returns.
C9_DifferenceWhereItReturns ==
    (/\ diff.done /\ diff.ok
     /\ self.name = other.name /\ self.repo_url = other.repo_url
     /\ self.is_product = other.is_product) =>
        SameDict(diff.value, ExpectedDifference(self.releases, other.releases))

\* B.difference(A) of the example was computed and raised SchemaError.
C9_ExampleRaises ==
    /\ diff.done /\ ~diff.ok
    /\ self = ComponentB /\ other = ComponentA


ScalarFields == {"name", "repo_url", "is_product"}

\* The value of a scalar field of a component.
Scalar(component, k) ==
    CASE k = "name" -> component.name
      [] k = "repo_url" -> component.repo_url
      [] k = "is_product" -> component.is_product

\* C22: the mapping returned by a.difference(b) contains the key name,
\* repo_url or is_product exactly when a's value of that field differs from
\* b's, and then maps it to a's value; a scalar field that is equal in both
\* never appears in the result.
C22_ScalarFieldsOfTheDifference ==
    (diff.done /\ diff.ok) =>
        \A k \in ScalarFields :
            /\ k \in DOMAIN diff.value <=> Scalar(self, k) # Scalar(other, k)
            /\ k \in DOMAIN diff.value => diff.value[k] = Scalar(self, k)

\* The two components differ in the three scalars and in their releases: the
\* difference holds the three values of self and its releases.
C22_Witness ==
    /\ diff.done /\ diff.ok
    /\ self.name = "test2" /\ other.name = "test1"
    /\ self.repo_url = Url2 /\ other.repo_url = Url1
    /\ self.is_product /\ ~other.is_product
    /\ DOMAIN diff.value = ScalarFields \cup {"releases"}
    /\ diff.value["name"] = "test2" /\ diff.value["repo_url"] = Url2
    /\ diff.value["is_product"] = TRUE

\* Only the name differs: the difference is {name: test2}.
C22_OnlyTheName ==
    /\ diff.done /\ diff.ok
    /\ self.name = "test2" /\ other.name = "test1"
    /\ SameDict(diff.value, [k \in {"name"} |-> "test2"])

-----------------------------------------------------------------------------
(* The registry's repository: load_all_components and compare on commits *)

V(version, sha) == [version |-> version.text, sha |-> sha]

Group(series, versions) == [series |-> series, versions |-> versions]

Document(name, repo_url, is_product, releases) ==
    [name |-> name, repo_url |-> repo_url, is_product |-> is_product,
     releases |-> releases]

Test1(is_product, releases) == Document("test1", Url1, is_product, releases)

Test2 == Document("test2", Url2, TRUE, <<Group("first", <<V(Plain(1, 1, 0), Sha1)>>)>>)

First100 == Group("first", <<V(Plain(1, 0, 0), Sha0)>>)

Tree(files) == [dir |-> TRUE, files |-> files]

NoDirectory == [dir |-> FALSE, files |-> <<>>]

Only(document) == Tree([n \in {"test1"} |-> document])

Both(document, second) ==
    Tree([n \in {"test1", "test2"} |-> IF n = "test1" THEN document ELSE second])

\* The commits of the repository.  base: test1 with 1.0.0 in the series
\* first.  The others differ from base by: a release in a new series; a
\* release in the series first (the versions of a group stored newest first,
\* as component_schema requires); a release in the series first whose key is
\* that of 1.0.0; two releases; a second component; the value of is_product;
\* the sha of 1.0.0; a sha that is no commit hash; the missing directory.
\* registered_later is the commit same_series with the second component.
Commits ==
    [ base |-> Only(Test1(FALSE, <<First100>>)),
      new_series |-> Only(Test1(FALSE,
          <<First100, Group("second", <<V(Plain(2, 0, 0), Sha2)>>)>>)),
      same_series |-> Only(Test1(FALSE,
          <<Group("first", <<V(Plain(1, 1, 0), Sha1), V(Plain(1, 0, 0), Sha0)>>)>>)),
      same_key |-> Only(Test1(FALSE,
          <<Group("first", <<V(Plain(1, 0, 0), Sha0),
                             V(WithText(Parts(TRUE, FALSE, 1, 0, 0, "none", 0)), Sha1)>>)>>)),
      two_releases |-> Only(Test1(FALSE,
          <<First100, Group("second", <<V(Plain(2, 0, 0), Sha2)>>),
            Group("third", <<V(Plain(10, 0, 0), Sha1)>>)>>)),
      registered |-> Both(Test1(FALSE, <<First100>>), Test2),
      registered_later |-> Both(Test1(FALSE,
          <<Group("first", <<V(Plain(1, 1, 0), Sha1), V(Plain(1, 0, 0), Sha0)>>)>>), Test2),
      product |-> Only(Test1(TRUE, <<First100>>)),
      other_sha |-> Only(Test1(FALSE, <<Group("first", <<V(Plain(1, 0, 0), Sha1)>>)>>)),
      bad_sha |-> Only(Test1(FALSE, <<Group("first", <<V(Plain(1, 0, 0), ShaShort)>>)>>)),
      no_directory |-> NoDirectory ]

\* The order in which os.listdir gives the files.
FileOrder == <<"test1", "test2">>

Commitishes == DOMAIN Commits \cup {"unknown"}

\* HEAD is at any of the commits, and one command is run.
InitRepo ==
    /\ head \in DOMAIN Commits
    /\ run = NotRun
    /\ IdleExcept("repo")

\* load_all_components(components_dir, repo_dir, commitish)
Load(commitish) ==
    /\ run = NotRun
    /\ \E r \in {load_all_components(Commits, FileOrder, head, commitish)} :
        /\ head' = r.head
        /\ run' = [command |-> "load_all_components", commitish |-> commitish,
                   start_ref |-> head, ok |-> r.ok, error |-> r.error,
                   components |-> r.components]
    /\ UNCHANGED notRepo

\* compare(releases_dir, components_dir, from=from_ref, to=to_ref, verify=verify)
CompareRevisions(from_ref, to_ref, verify) ==
    /\ run = NotRun
    /\ \E r \in {compare(Commits, FileOrder, head, from_ref, to_ref, verify)} :
        /\ head' = r.head
        /\ run' = [command |-> "compare", from |-> from_ref, to |-> to_ref,
                   verify |-> verify, start_ref |-> head, ok |-> r.ok,
                   error |-> r.error, comparison |-> r.comparison,
                   output |-> r.output]
    /\ UNCHANGED notRepo

NextRepo ==
    \/ \E commitish \in Commitishes : Load(commitish)
    \/ \E from_ref, to_ref \in Commitishes,
          verify \in {"release", "registration", "none"} :
            CompareRevisions(from_ref, to_ref, verify)

SpecRepo == InitRepo /\ [][NextRepo]_vars

\* C3 (as claimed): whenever load_all_components has ended, with or without
\* a failure, HEAD is at the commit it was at before the call.
C3_HeadRestoredOnEveryExit ==
    run.command = "load_all_components" => head = run.start_ref

\* A load of a commit whose document is rejected has failed after the
\* checkout.
C3_LoadFailedAfterCheckout ==
    /\ run.command = "load_all_components" /\ ~run.ok
    /\ run.commitish = "bad_sha" /\ run.start_ref = "base"

\* C25: when load_all_components returns normally, HEAD is at the commit it
\* was at before the call, whatever revision was requested; hence after a
\* compare that completes, which loads `from` and then `to`, HEAD is at the
\* commit it was at before the compare started.
C25_HeadRestoredOnReturn ==
    /\ (run.command = "load_all_components" /\ run.ok) => head = run.start_ref
    /\ (run.command = "compare" /\ run.ok) => head = run.start_ref

\* With HEAD at base, a compare of two other commits has completed.
C25_Witness ==
    /\ run.command = "compare" /\ run.ok
    /\ run.start_ref = "base" /\ head = "base"
    /\ run.from = "new_series" /\ run.to = "registered"

\* With HEAD at base, another commit was loaded, and its components returned.
C25_LoadedAnotherCommit ==
    /\ run.command = "load_all_components" /\ run.ok
    /\ run.start_ref = "base" /\ head = "base"
    /\ run.commitish = "registered" /\ Len(run.components) = 2

\* The releases of a stored document, as a set of [version, sha, series].
ReleaseSet(document) ==
    UNION { { [version |-> document.releases[i].versions[k].version,
               sha |-> document.releases[i].versions[k].sha,
               series |-> document.releases[i].series] :
                k \in 1..Len(document.releases[i].versions) } :
            i \in 1..Len(document.releases) }

\* The documents of a tree.
Registry(tree) == {tree.files[n] : n \in DOMAIN tree.files}

\* A commit whose tree has the directory and commit hashes for all releases.
WellFormed(ref) ==
    /\ ref \in DOMAIN Commits
    /\ Commits[ref].dir
    /\ \A d \in Registry(Commits[ref]) :
        \A r \in ReleaseSet(d) : r.sha \in {Sha0, Sha1, Sha2}

\* The document t is the document f with the one release r added.
WithOneMore(f, t, r) ==
    /\ f.name = t.name /\ f.repo_url = t.repo_url /\ f.is_product = t.is_product
    /\ r \notin ReleaseSet(f)
    /\ ReleaseSet(t) = ReleaseSet(f) \cup {r}

\* The registry T is the registry F with the release r added to one of its
\* components.
OneReleaseAdded(F, T, r) ==
    \E f \in Registry(F), t \in Registry(T) :
        /\ WithOneMore(f, t, r)
        /\ Registry(F) \ {f} = Registry(T) \ {t}

AddedReleases(F, T) ==
    { r \in UNION {ReleaseSet(t) : t \in Registry(T)} : OneReleaseAdded(F, T, r) }

\* C2 (as claimed): compare with verify=release succeeds exactly when the
\* registry at `to` is the registry at `from` with one release added to one
\* of its components, in an existing or a new series, and then returns that
\* release; it fails for every other change.
C2_ReleaseModeAcceptsOneAddedRelease ==
    (run.command = "compare" /\ run.verify = "release") =>
        /\ run.ok <=>
            /\ WellFormed(run.from) /\ WellFormed(run.to)
            /\ AddedReleases(Commits[run.from], Commits[run.to]) # {}
        /\ run.ok => run.output \in AddedReleases(Commits[run.from], Commits[run.to])

\* C2, one direction: a compare with verify=release that succeeds has found
\* one release added and returns it, and the comparison then has one key
\* with one added group of one version and nothing deleted.
C2_SuccessOnlyForOneAddedRelease ==
    (run.command = "compare" /\ run.verify = "release" /\ run.ok) =>
        /\ WellFormed(run.from) /\ WellFormed(run.to)
        /\ run.output \in AddedReleases(Commits[run.from], Commits[run.to])
        /\ Cardinality(DOMAIN run.comparison) = 1
        /\ \A name \in DOMAIN run.comparison :
            /\ IsEmptyDict(run.comparison[name].deleted)
            /\ Len(run.comparison[name].added.releases) = 1
            /\ Len(run.comparison[name].added.releases[1].versions) = 1

\* A compare from base to the commit with 2.0.0 in a new series has returned
\* the release 2.0.0.
C2_NewSeriesAccepted ==
    /\ run.command = "compare" /\ run.verify = "release" /\ run.ok
    /\ run.from = "base" /\ run.to = "new_series"
    /\ run.output = [version |-> Plain(2, 0, 0).text, sha |-> Sha2, series |-> "second"]

\* A compare from base to the commit with 1.1.0 added to the series first
\* has failed, with SchemaError.
C2_SameSeriesRaises ==
    /\ run.command = "compare" /\ run.verify = "release" /\ ~run.ok
    /\ run.from = "base" /\ run.to = "same_series"
    /\ run.error = "SchemaError"


-----------------------------------------------------------------------------
(* A component that is loaded, changed, written with to_file and loaded     *)
(* again                                                                    *)

\* component.to_file()
ToFile ==
    \E r \in {to_file(comp, stored)} :
        /\ stored' = r.files
        /\ last' = [op |-> "to_file", ok |-> r.ok, error |-> r.error,
                    version |-> <<>>, before |-> comp.releases,
                    was_changed |-> _is_changed(comp), writes |-> r.writes,
                    files_before |-> stored]
        /\ UNCHANGED <<comp, loaded, notComponent>>

\* Component.from_file(component.name, directory), after to_file
Reload ==
    \E r \in {from_file(comp.name, ComponentsDir, stored)} :
        /\ comp' = IF r.ok THEN r.component ELSE comp
        /\ loaded' = IF r.ok
                     THEN [from_file |-> TRUE, name |-> r.component.name,
                           repo_url |-> r.component.repo_url,
                           is_product |-> r.component.is_product, added |-> 0]
                     ELSE loaded
        /\ last' = [op |-> "reload", ok |-> r.ok, error |-> r.error,
                    version |-> <<>>, before |-> comp.releases,
                    was_changed |-> _is_changed(comp), component_before |-> comp,
                    loaded_before |-> loaded, to_file_ok |-> last.ok]
        /\ UNCHANGED <<stored, notComponent>>

Changing == last.op \in {"from_file", "create_release", "set_name"}

\* A component is loaded (or not found), given releases and a name, written
\* and loaded again.
NextPersist ==
    \/ last.op = "none" /\ \E name \in Names \cup {"absent"} : FromFile(name)
    \/ Changing /\ \E release \in ReleaseInputs : CreateRelease(release)
    \/ Changing /\ \E name \in Names : SetName(name)
    \/ Changing /\ ToFile
    \/ last.op = "to_file" /\ Reload

SpecPersist == InitComponent /\ [][NextPersist]_vars

SameReleases(x, y) ==
    /\ Len(x) = Len(y)
    /\ \A i \in 1..Len(x) :
        x[i].version = y[i].version /\ x[i].sha = y[i].sha /\ x[i].series = y[i].series

\* C11 (as claimed): a component loaded from a stored document and given one
\* or more releases with new version ids is written by to_file (one call of
\* save_data, no error), and from_file of the written document gives a
\* component with the same name, repo_url, is_product and releases that
\* reports unchanged.
C11_AddedReleasesPersistAndReload ==
    /\ (last.op = "to_file" /\ loaded.from_file /\ loaded.added > 0) =>
        last.ok /\ last.writes = 1 /\ comp.name \in DOMAIN stored
    /\ (/\ last.op = "reload"
        /\ last.loaded_before.from_file /\ last.loaded_before.added > 0) =>
        /\ last.ok
        /\ comp.name = last.component_before.name
        /\ comp.repo_url = last.component_before.repo_url
        /\ comp.is_product = last.component_before.is_product
        /\ SameReleases(comp.releases, last.component_before.releases)
        /\ ~_is_changed(comp)

\* test1 was loaded with 1.0.0 in the series first, 1.1.0 was added to that
\* series, and to_file has raised SchemaError without writing.
C11_ToFileRaises ==
    /\ last.op = "to_file" /\ ~last.ok /\ last.error = "SchemaError"
    /\ last.writes = 0 /\ stored = StoredDocuments
    /\ loaded.from_file /\ loaded.name = "test1" /\ loaded.added = 1
    /\ SameReleases(comp.releases,
                    << [version |-> Plain(1, 0, 0).text, sha |-> Sha0, series |-> "first"],
                       [version |-> Plain(1, 1, 0).text, sha |-> Sha1, series |-> "first"] >>)

\* C11, where to_file returns: what is loaded again is what was written.
C11_ReloadWhereToFileReturns ==
    (last.op = "reload" /\ last.to_file_ok) =>
        /\ last.ok
        /\ comp.name = last.component_before.name
        /\ comp.repo_url = last.component_before.repo_url
        /\ comp.is_product = last.component_before.is_product
        /\ SameReleases(comp.releases, last.component_before.releases)
        /\ ~_is_changed(comp)

-----------------------------------------------------------------------------
(* to_dict of the components built by create_release                        *)

SeriesAt(releases) == {releases[i].series : i \in 1..Len(releases)}

FirstOf(releases, series) ==
    CHOOSE i \in 1..Len(releases) :
        /\ releases[i].series = series
        /\ \A j \in 1..(i - 1) : releases[j].series # series

\* The releases of one series, in the order of the list.
RECURSIVE OfSeries(_, _)
OfSeries(releases, series) ==
    IF Len(releases) = 0 THEN <<>>
    ELSE IF releases[1].series = series
    THEN <<[version |-> releases[1].version, sha |-> releases[1].sha]>>
         \o OfSeries(Tail(releases), series)
    ELSE OfSeries(Tail(releases), series)

\* One group for each series of the list, holding all its releases, the
\* groups in the order in which the series first appear in the list.
OneGroupPerSeries(groups, releases) ==
    /\ Len(groups) = Cardinality(SeriesAt(releases))
    /\ \A k \in 1..Len(groups) :
        /\ groups[k].series \in SeriesAt(releases)
        /\ groups[k].versions = OfSeries(releases, groups[k].series)
    /\ \A k, l \in 1..Len(groups) :
        k < l => FirstOf(releases, groups[k].series) < FirstOf(releases, groups[l].series)

Accepted(d, releases) == d.ok /\ OneGroupPerSeries(d.document.releases, releases)

\* C12 (as claimed): for every component built through create_release
\* (add_release) from valid inputs, to_dict returns a document accepted by
\* component_schema in which each series has exactly one group holding all
\* its releases, the groups ordered by first appearance in the ascending
\* list; also with two versions in a series and with interleaved series.
C12_ToDictAcceptedOneGroupPerSeries == Accepted(to_dict(comp), comp.releases)

\* 1.0.0 and 1.1.0 of the series first were added to a component, in the
\* order of test_release_added, and to_dict raises SchemaError.
C12_TwoVersionsOfASeriesRaise ==
    /\ last.op = "create_release" /\ last.ok
    /\ SameReleases(comp.releases,
                    << [version |-> Plain(1, 0, 0).text, sha |-> Sha0, series |-> "first"],
                       [version |-> Plain(1, 1, 0).text, sha |-> Sha1, series |-> "first"] >>)
    /\ ~to_dict(comp).ok

\* The releases of two series interleave (first, second, first) and to_dict
\* raises SchemaError.
C12_InterleavedSeriesRaise ==
    /\ Len(comp.releases) = 3
    /\ comp.releases[1].series = "first" /\ comp.releases[2].series = "second"
    /\ comp.releases[3].series = "first"
    /\ ~to_dict(comp).ok

Descending(versions) ==
    \A i, j \in 1..Len(versions) :
        i < j => ~TupleLt(version_key(versions[i].version), version_key(versions[j].version))

\* What to_dict does: it returns exactly when no group of consecutive
\* releases of one series holds a version below a later one and no series
\* has two groups, and the document then is as C12 says.
C12_ToDictWhereItReturns ==
    /\ to_dict(comp).ok <=>
        /\ OneGroupPerSeries(groupby(comp.releases), comp.releases)
        /\ \A k \in 1..Len(groupby(comp.releases)) :
            Descending(groupby(comp.releases)[k].versions)
    /\ to_dict(comp).ok => Accepted(to_dict(comp), comp.releases)

-----------------------------------------------------------------------------
(* compare without verification, against the stored documents of the two   *)
(* revisions                                                                *)

\* What a.difference(b) is to report for two stored documents of one name:
\* the scalar fields of a that differ, and the entries of a that b lacks.
DifferingKeys(a, b, groups) ==
    {k \in {"repo_url", "is_product"} : a[k] # b[k]}
        \cup (IF groups = <<>> THEN {} ELSE {"releases"})

DifferenceFrom(a, groups, keys) ==
    [k \in keys |-> IF k = "releases" THEN groups ELSE a[k]]

DocumentDifference(a, b) ==
    DifferenceFrom(a, ReportedGroups(flatten(a.releases), flatten(b.releases)),
        DifferingKeys(a, b, ReportedGroups(flatten(a.releases), flatten(b.releases))))

\* The names of the components whose documents differ between F and T.
Differing(F, T) ==
    {n \in DOMAIN F \cup DOMAIN T :
        \/ n \notin DOMAIN F
        \/ n \notin DOMAIN T
        \/ F[n] # T[n]}

ExpectedAdded(F, T, n) ==
    IF n \notin DOMAIN T THEN EmptyDict
    ELSE IF n \notin DOMAIN F THEN T[n]
    ELSE DocumentDifference(T[n], F[n])

ExpectedComparison(F, T) ==
    [n \in Differing(F, T) |->
        [added |-> ExpectedAdded(F, T, n), deleted |-> ExpectedAdded(T, F, n)]]

SameComparison(c, e) ==
    /\ DOMAIN c = DOMAIN e
    /\ \A n \in DOMAIN c :
        /\ SameDict(c[n].added, e[n].added)
        /\ SameDict(c[n].deleted, e[n].deleted)

\* C13 (as claimed): compare of two revisions returns a map keyed by
\* component name with exactly the components whose document differs.  For a
\* component in both, added is to.difference(from) and deleted is
\* from.difference(to); for one only in `to`, added is its full document and
\* deleted is empty, and the reverse for one only in `from`; a component with
\* both parts empty is left out, and a revision compared with itself gives
\* the empty map.
C13_CompareReportsDifferingComponents ==
    (/\ run.command = "compare" /\ run.verify = "none"
     /\ WellFormed(run.from) /\ WellFormed(run.to)) =>
        /\ run.ok
        /\ SameComparison(run.comparison,
                          ExpectedComparison(Commits[run.from].files, Commits[run.to].files))
        /\ run.from = run.to => DOMAIN run.comparison = {}

\* The commit holding 1.1.0 and 1.0.0 in the series first was compared with
\* itself, and compare raised SchemaError instead of returning the empty map.
C13_SelfComparisonRaises ==
    /\ run.command = "compare" /\ run.verify = "none"
    /\ run.from = "same_series" /\ run.to = "same_series"
    /\ ~run.ok /\ run.error = "SchemaError"

\* C13, where compare returns: the map is the one claimed.
C13_CompareWhereItReturns ==
    (run.command = "compare" /\ run.verify = "none" /\ run.ok) =>
        /\ WellFormed(run.from) /\ WellFormed(run.to)
        /\ SameComparison(run.comparison,
                          ExpectedComparison(Commits[run.from].files, Commits[run.to].files))

\* A compare from base to the commit that registers test2 has returned the
\* full document of test2 as added.
C13_RegisteredReported ==
    /\ run.command = "compare" /\ run.verify = "none" /\ run.ok
    /\ run.from = "base" /\ run.to = "registered"
    /\ DOMAIN run.comparison = {"test2"}
    /\ SameDict(run.comparison["test2"].added, Test2)
    /\ IsEmptyDict(run.comparison["test2"].deleted)

-----------------------------------------------------------------------------
(* compare with verify=registration                                         *)

\* The names of the components of T when T is F with one component more and
\* nothing else changed.
Registered(F, T) ==
    {n \in DOMAIN T \ DOMAIN F :
        /\ DOMAIN T = DOMAIN F \cup {n}
        /\ \A m \in DOMAIN F : F[m] = T[m]}

\* The Component c is the one the document holds.
IsComponentOf(c, document) ==
    /\ c.name = document.name /\ c.repo_url = document.repo_url
    /\ c.is_product = document.is_product
    /\ {[version |-> c.releases[i].version, sha |-> c.releases[i].sha,
         series |-> c.releases[i].series] : i \in 1..Len(c.releases)}
            = ReleaseSet(document)

\* C14 (as claimed): compare with verify=registration succeeds exactly when
\* `to` differs from `from` only by one component that does not exist in
\* `from` (the map then has one key, with empty deleted and a complete
\* schema-valid document as added), and returns that new Component; any
\* change to an existing component makes it fail.
C14_RegistrationModeAcceptsOneNewComponent ==
    (run.command = "compare" /\ run.verify = "registration") =>
        /\ run.ok <=>
            /\ WellFormed(run.from) /\ WellFormed(run.to)
            /\ Registered(Commits[run.from].files, Commits[run.to].files) # {}
        /\ run.ok =>
            \E n \in Registered(Commits[run.from].files, Commits[run.to].files) :
                IsComponentOf(run.output, Commits[run.to].files[n])

\* test2 was registered on the commit holding 1.1.0 and 1.0.0 of test1 in
\* the series first, and compare with verify=registration raised SchemaError.
C14_RegistrationRaises ==
    /\ run.command = "compare" /\ run.verify = "registration"
    /\ run.from = "same_series" /\ run.to = "registered_later"
    /\ ~run.ok /\ run.error = "SchemaError"

\* C14, one direction: a compare with verify=registration that succeeds has
\* found one new component and nothing else changed, and returns it; the map
\* has one key with empty deleted and a schema-valid document as added.
C14_SuccessOnlyForOneNewComponent ==
    (run.command = "compare" /\ run.verify = "registration" /\ run.ok) =>
        /\ WellFormed(run.from) /\ WellFormed(run.to)
        /\ \E n \in Registered(Commits[run.from].files, Commits[run.to].files) :
            /\ IsComponentOf(run.output, Commits[run.to].files[n])
            /\ DOMAIN run.comparison = {n}
            /\ IsEmptyDict(run.comparison[n].deleted)
            /\ component_schema(run.comparison[n].added)

\* A compare from base to the commit that registers test2 has returned the
\* Component test2.
C14_RegistrationAccepted ==
    /\ run.command = "compare" /\ run.verify = "registration" /\ run.ok
    /\ run.from = "base" /\ run.to = "registered"
    /\ IsComponentOf(run.output, Test2)

\* Where no document has two versions in one series, C14 holds as claimed.
C14_ClaimWhereToDictReturns ==
    (/\ run.command = "compare"
     /\ run.from \notin {"same_series", "registered_later"}
     /\ run.to \notin {"same_series", "registered_later"}) =>
        C14_RegistrationModeAcceptsOneNewComponent

-----------------------------------------------------------------------------
(* Looking releases up: create_release and get_release on one component     *)

\* The versions asked for: those of the releases handed to create_release
\* and one that no release has.
LookupVersions ==
    {release.version : release \in ReleaseInputs} \cup {Plain(1, 1, 2).text}

\* A new component, or test2 as loaded from its file; `loaded` holds the
\* releases created on the component, in the order of their creation.
InitLookup ==
    /\ comp \in {Component("test1", Url1, FALSE, ComponentsDir),
                 from_file("test2", ComponentsDir, StoredDocuments).component}
    /\ stored = StoredDocuments
    /\ last = NoOperation
    /\ loaded = comp.releases
    /\ IdleExcept("component")

\* component.create_release(version, sha, series)
Create(release) ==
    /\ Len(comp.releases) < MaxReleases
    /\ \E r \in {create_release(comp, release.version, release.sha, release.series)} :
        /\ comp' = r.component
        /\ loaded' = IF r.ok THEN Append(loaded, release) ELSE loaded
        /\ last' = [op |-> "create_release", ok |-> r.ok, error |-> r.error,
                    version |-> release.version, predecessor |-> FALSE,
                    before |-> comp.releases, release |-> None]
    /\ UNCHANGED <<stored, notComponent>>

\* component.get_release(version, predecessor)
GetRelease(version, predecessor) ==
    /\ \E r \in {get_release(comp, version, predecessor)} :
        last' = [op |-> "get_release", ok |-> r.ok, error |-> r.error,
                 version |-> version, predecessor |-> predecessor,
                 before |-> comp.releases, release |-> r.release]
    /\ UNCHANGED <<comp, stored, loaded, notComponent>>

NextLookup ==
    \/ \E release \in ReleaseInputs : Create(release)
    \/ \E version \in LookupVersions, predecessor \in BOOLEAN :
        GetRelease(version, predecessor)

SpecLookup == InitLookup /\ [][NextLookup]_vars

\* The positions of the version in a release list.
PositionsOf(releases, version) ==
    {i \in 1..Len(releases) : releases[i].version = version}

\* C17: get_release(version, predecessor=True) returns the release that
\* stands immediately before the release with that version in the ascending
\* list, whatever the series of the two; it fails with the no-predecessor
\* error when that release is the first of the list and with the not-found
\* error when no release has the version; it never changes the list.
C17_PredecessorIsThePreviousRelease ==
    (last.op = "get_release" /\ last.predecessor) =>
        /\ comp.releases = last.before
        /\ PositionsOf(last.before, last.version) = {} =>
            ~last.ok /\ last.error = "does not exist"
        /\ PositionsOf(last.before, last.version) = {1} =>
            ~last.ok /\ last.error = "does not have a predecessor"
        /\ \A i \in PositionsOf(last.before, last.version) :
            i > 1 => last.ok /\ last.release = last.before[i - 1]
        /\ last.ok =>
            ~TupleLt(version_key(last.version), version_key(last.release.version))

\* The predecessor returned is of another series than the release asked for.
C17_Witness ==
    /\ last.op = "get_release" /\ last.predecessor /\ last.ok
    /\ \E i \in PositionsOf(last.before, last.version) :
        /\ i = 3
        /\ last.release = last.before[2]
        /\ last.before[2].series # last.before[3].series

\* The first release has no predecessor, and an absent version is not found.
C17_ErrorsReached ==
    /\ last.op = "get_release" /\ last.predecessor /\ ~last.ok
    /\ Len(last.before) = 3
    /\ last.error = "does not have a predecessor"

\* The releases created with the version, in `loaded`.
CreatedWith(version) ==
    {loaded[i] : i \in {j \in 1..Len(loaded) : loaded[j].version = version}}

\* C18: after a successful create_release(version, sha, series),
\* get_release(version) returns that very release, also when other releases
\* were added since; get_release of a version no release has fails with the
\* not-found error.
C18_GetReleaseReturnsTheCreatedRelease ==
    (last.op = "get_release" /\ ~last.predecessor) =>
        /\ CreatedWith(last.version) # {} =>
            /\ last.ok
            /\ CreatedWith(last.version) = {last.release}
        /\ CreatedWith(last.version) = {} =>
            ~last.ok /\ last.error = "does not exist"

\* The release created first was found after two more were created, and it
\* is not the first of the list.
C18_Witness ==
    /\ last.op = "get_release" /\ ~last.predecessor /\ last.ok
    /\ Len(loaded) = 3
    /\ last.release = loaded[1]
    /\ last.release # comp.releases[1]

\* A version that differs from an existing one only by the prefix r is not
\* found.
C18_AbsentNotFound ==
    /\ last.op = "get_release" /\ ~last.predecessor /\ ~last.ok
    /\ \E i \in 1..Len(comp.releases) :
        /\ comp.releases[i].version # last.version
        /\ version_key(comp.releases[i].version) = version_key(last.version)

-----------------------------------------------------------------------------
(* The shape of a dependency's constraints list: constraints_schema and the *)
(* choice of update_requirements between its two paths                      *)

Letters(word) ==
    CASE word = "master" -> <<"m", "a", "s", "t", "e", "r">>
      [] word = "version" -> <<"v", "e", "r", "s", "i", "o", "n">>
      [] word = "branch" -> <<"b", "r", "a", "n", "c", "h">>

\* A branch pin, written from the name of the branch.
BranchPin(name) == [kind |-> "branch", text |-> Letters("branch") \o <<"=", "=">> \o name]

\* A version-range expression, written from its operator and numbers.
VersionRange(op, p, fields) == [kind |-> "version", text |-> ConstraintText(op, p, fields)]

\* A text that is neither.
Neither(text) == [kind |-> "neither", text |-> text]

\* The constraints of test_constraints_schema and test_update_requirements,
\* a branch whose name reads as a version range, and texts that miss the
\* branch name, the second =, the version or the operator.
ShapeInputs ==
    { VersionRange(">=", Parts(FALSE, FALSE, 1, 1, 0, "none", 0), 2),
      VersionRange("<", Parts(FALSE, FALSE, 2, 0, 0, "none", 0), 1),
      VersionRange("==", Parts(TRUE, FALSE, 1, 0, 0, "rc", 1), 4),
      BranchPin(Letters("master")),
      BranchPin(ConstraintText(">=", Parts(FALSE, FALSE, 1, 0, 0, "none", 0), 1)),
      Neither(Letters("branch") \o <<"=", "=">>),
      Neither(Letters("branch") \o <<"=">> \o Letters("master")),
      Neither(Letters("version") \o <<">", "=">>),
      Neither(Letters("version") \o <<"1", ".", "0">>),
      Neither(Letters("master")) }

InitShape ==
    /\ rcomp = Unused
    /\ cons = <<>>
    /\ req = NotResolved
    /\ IdleExcept("resolve")

\* constraints_schema.validate(constraints), and the path update_requirements
\* takes for the list.
ValidateConstraints ==
    /\ req = NotResolved
    /\ req' = [done |-> TRUE, accepted |-> constraints_schema(Texts(cons)),
               path |-> requirement_path(Texts(cons))]
    /\ UNCHANGED <<rcomp, cons, notResolve>>

NextShape ==
    \/ \E c \in ShapeInputs : req = NotResolved /\ Constrain(c)
    \/ ValidateConstraints

SpecShape == InitShape /\ [][NextShape]_vars

AllOfKind(inputs, kind) == \A i \in 1..Len(inputs) : inputs[i].kind = kind

\* C20: a constraints list is accepted by the metadata schema only when it
\* is a list, possibly empty, of version-range expressions or a list of
\* exactly one branch pin; mixed lists and lists of two or more branch pins
\* are rejected; update_requirements takes the branch path exactly for the
\* list of a single branch pin and the version path for every other accepted
\* list, the empty one included.
C20_VersionRangesOrOneBranchPin ==
    req.done =>
        /\ req.accepted <=>
            \/ AllOfKind(cons, "version")
            \/ Len(cons) = 1 /\ AllOfKind(cons, "branch")
        /\ (Len(cons) >= 2 /\ \E i \in 1..Len(cons) : cons[i].kind = "branch")
            => ~req.accepted
        /\ req.path = "branch" <=> (Len(cons) = 1 /\ AllOfKind(cons, "branch"))
        /\ (req.accepted /\ ~(Len(cons) = 1 /\ AllOfKind(cons, "branch")))
            => req.path = "version"

\* A list of two branch pins was rejected.
C20_Witness ==
    /\ req.done /\ ~req.accepted
    /\ Len(cons) = 2 /\ AllOfKind(cons, "branch")

\* The empty list was accepted and takes the version path; a single branch
\* pin whose branch name reads as a version range takes the branch path.
C20_EmptyListTakesVersionPath == req.done /\ cons = <<>> /\ req.accepted /\ req.path = "version"

C20_BranchNamedLikeAVersion ==
    /\ req.done /\ req.accepted /\ req.path = "branch"
    /\ Len(cons) = 1
    /\ version_constraint_regex(branch_constraint_regex(cons[1].text).branch_name).matched

-----------------------------------------------------------------------------
(* cli.py and component.py: the dependency update-requirements command.     *)
(* What a function leaves is [ok, exception, error, ...]: the class of the  *)
(* exception it raised and its message [text, c_name, cs], with the         *)
(* component name and the constraints the message is formatted with.        *)

REQUIREMENTS_FILENAME == "component_requirements.yml"

NoFile == [exists |-> FALSE]

File(data) == [exists |-> TRUE, data |-> data]

NoError == [text |-> "", c_name |-> "", cs |-> <<>>]

Message(text, c_name, cs) == [text |-> text, c_name |-> c_name, cs |-> cs]

\* The exception class of a failure of from_file, create_release or to_file.
exception_of(error) ==
    IF error \in {"SchemaError", "FileNotFoundError"} THEN error ELSE "ComponentError"

\* artifacts_schema: a list of file and log artifacts [type, source].
artifacts_schema(artifacts) ==
    \A i \in 1..Len(artifacts) :
        artifacts[i].type \in {"file", "log"} /\ artifacts[i].source # ""

\* dependencies_schema on the value of "dependencies": a list of [name,
\* constraints] with unique names.
dependencies_schema(dependencies) ==
    /\ \A i \in 1..Len(dependencies) :
        /\ dependencies[i].name # ""
        /\ constraints_schema(dependencies[i].constraints)
    /\ \A i, j \in 1..Len(dependencies) :
        dependencies[i].name = dependencies[j].name => i = j

\* component_metadata_schema.validate(metadata) does not raise; both keys are
\* optional.
component_metadata_schema(metadata) ==
    /\ DOMAIN metadata \subseteq {"dependencies", "artifacts"}
    /\ "dependencies" \in DOMAIN metadata => dependencies_schema(metadata["dependencies"])
    /\ "artifacts" \in DOMAIN metadata => artifacts_schema(metadata["artifacts"])

\* component_requirements_schema.validate(requirements) does not raise; None
\* for ref and version is NoGroup.
component_requirements_schema(requirements) ==
    /\ DOMAIN requirements = {"dependencies"}
    /\ \A i \in 1..Len(requirements["dependencies"]) :
        /\ requirements["dependencies"][i].name # ""
        /\ requirements["dependencies"][i].ref_type \in {"branch", "tag"}
        /\ repo_url_schema(requirements["dependencies"][i].repo_url)
        /\ version_sha_schema(requirements["dependencies"][i].sha)
        /\ \/ requirements["dependencies"][i].version = NoGroup
           \/ version_id_schema(requirements["dependencies"][i].version)
    /\ \A i, j \in 1..Len(requirements["dependencies"]) :
        requirements["dependencies"][i].name = requirements["dependencies"][j].name
            => i = j

\* git.Repo.clone_from(repo_url, tmp_dir, branch=branch_name) and
\* repo.head.commit.hexsha: the repositories of the components have the
\* branch master, at the commit Sha2, and no other branch.
clone_from(repo_url, branch_name) ==
    IF branch_name = Letters("master")
    THEN [ok |-> TRUE, hexsha |-> Sha2]
    ELSE [ok |-> FALSE, hexsha |-> ""]

\* A branch requirement that carries the branch name as its version too.
branch_requirement_with_version(component, branch_name, cloned) ==
    IF ~cloned.ok
    THEN [ok |-> FALSE, exception |-> "GitCommandError",
          error |-> Message("clone failed", component.name, <<>>),
          requirement |-> None]
    ELSE [ok |-> TRUE, exception |-> "", error |-> NoError,
          requirement |-> [name |-> component.name, ref |-> branch_name,
                           ref_type |-> "branch", repo_url |-> component.repo_url,
                           sha |-> cloned.hexsha, version |-> branch_name]]

branch_requirement(component, branch_name, cloned) ==
    IF ~cloned.ok
    THEN [ok |-> FALSE, exception |-> "GitCommandError",
          error |-> Message("clone failed", component.name, <<>>),
          requirement |-> None]
    ELSE [ok |-> TRUE, exception |-> "", error |-> NoError,
          requirement |-> [name |-> component.name, ref |-> branch_name,
                           ref_type |-> "branch", repo_url |-> component.repo_url,
                           sha |-> cloned.hexsha, version |-> NoGroup]]

\* requirement_from_branch_constraints(component, constraints); the list has
\* one element, which constraints.pop() takes.
requirement_from_branch_constraints(component, constraints) ==
    branch_requirement(component,
        branch_constraint_regex(constraints[Len(constraints)]).branch_name,
        clone_from(component.repo_url,
            branch_constraint_regex(constraints[Len(constraints)]).branch_name))

\* The result r of requirement_from_version_constraints with the class and
\* the format arguments of its exception: raise Exception("The component
\* '{c_name}' has no version matching the constraints '{cs}'.")
version_requirement(component, constraints, r) ==
    IF r.ok
    THEN [ok |-> TRUE, exception |-> "", error |-> NoError, requirement |-> r.requirement]
    ELSE [ok |-> FALSE, exception |-> "Exception",
          error |-> Message(r.error, component.name, constraints),
          requirement |-> None]

\* The body of the loop of update_requirements for one dependency, f being
\* the result of Component.from_file(dependency["name"], component_dir).
dependency_requirement(dependency, f) ==
    IF ~f.ok
    THEN [ok |-> FALSE, exception |-> exception_of(f.error),
          error |-> Message(f.error, dependency.name, <<>>), requirement |-> None]
    ELSE IF requirement_path(dependency.constraints) = "branch"
    THEN requirement_from_branch_constraints(f.component, dependency.constraints)
    ELSE version_requirement(f.component, dependency.constraints,
             requirement_from_version_constraints(f.component, dependency.constraints))

\* requirements["dependencies"].append(requirement), or the exception.
appended_requirement(acc, r) ==
    IF r.ok
    THEN [acc EXCEPT !.requirements = Append(@, r.requirement)]
    ELSE [ok |-> FALSE, exception |-> r.exception, error |-> r.error,
          requirements |-> acc.requirements]

\* for dependency in metadata["dependencies"], acc being [ok, exception,
\* error, requirements] so far: the first exception ends the loop.
RECURSIVE requirements_from(_, _, _, _)
requirements_from(dependencies, component_dir, files, acc) ==
    IF Len(dependencies) = 0 \/ ~acc.ok THEN acc
    ELSE requirements_from(Tail(dependencies), component_dir, files,
             appended_requirement(acc,
                 dependency_requirement(dependencies[1],
                     from_file(dependencies[1].name, component_dir, files))))

\* The dependency as the body of the loop leaves it, f being the result of
\* from_file: on the branch path constraints.pop() has taken the last
\* element of the list, which is the list of the metadata; from_file raises
\* before the list is looked at.
dependency_left(dependency, f) ==
    IF f.ok /\ requirement_path(dependency.constraints) = "branch"
    THEN [dependency EXCEPT
             !.constraints = SubSeq(@, 1, Len(dependency.constraints) - 1)]
    ELSE dependency

\* metadata["dependencies"] as the loop of update_requirements leaves it:
\* the dependencies after the first exception are not reached.
RECURSIVE dependencies_left(_, _, _)
dependencies_left(dependencies, component_dir, files) ==
    IF Len(dependencies) = 0 THEN <<>>
    ELSE <<dependency_left(dependencies[1],
                           from_file(dependencies[1].name, component_dir, files))>>
         \o (IF dependency_requirement(dependencies[1],
                    from_file(dependencies[1].name, component_dir, files)).ok
             THEN dependencies_left(Tail(dependencies), component_dir, files)
             ELSE Tail(dependencies))

\* The metadata argument after update_requirements(metadata, component_dir).
metadata_left(metadata, component_dir, files) ==
    IF "dependencies" \notin DOMAIN metadata THEN metadata
    ELSE [metadata EXCEPT
             !["dependencies"] = dependencies_left(@, component_dir, files)]

\* return component_requirements_schema.validate(requirements)
validated_requirements(r) ==
    IF r.ok /\ ~component_requirements_schema([dependencies |-> r.requirements])
    THEN [ok |-> FALSE, exception |-> "SchemaError",
          error |-> Message("SchemaError", "", <<>>), requirements |-> r.requirements]
    ELSE r

\* update_requirements(metadata, component_dir), the directory holding
\* `files`: [ok, exception, error, requirements].
update_requirements(metadata, component_dir, files) ==
    IF "dependencies" \notin DOMAIN metadata
    THEN [ok |-> FALSE, exception |-> "KeyError",
          error |-> Message("dependencies", "", <<>>), requirements |-> <<>>]
    ELSE validated_requirements(
             requirements_from(metadata["dependencies"], component_dir, files,
                 [ok |-> TRUE, exception |-> "", error |-> NoError,
                  requirements |-> <<>>]))

\* load_data(component_metadata.yml), or new_metadata when there is no file.
load_metadata(dir) ==
    IF dir.metadata.exists THEN dir.metadata.data ELSE [dependencies |-> <<>>]

\* load_requirements(directory): [ok, data]; the data are validated.
load_requirements(dir) ==
    [ok |-> component_requirements_schema(
                IF dir.requirements.exists THEN dir.requirements.data
                ELSE [dependencies |-> <<>>]),
     data |-> IF dir.requirements.exists THEN dir.requirements.data
              ELSE [dependencies |-> <<>>]]

\* existing_requirements == requirements, on the lists of the two dicts.
same_requirements(a, b) ==
    /\ Len(a) = Len(b)
    /\ \A i \in 1..Len(a) :
        /\ a[i].name = b[i].name /\ a[i].ref_type = b[i].ref_type
        /\ a[i].ref = b[i].ref /\ a[i].repo_url = b[i].repo_url
        /\ a[i].sha = b[i].sha /\ a[i].version = b[i].version

\* What a command leaves: [ok, exception, error, raised_in, files, dir,
\* calls, changed], files and dir being the two directories after it, calls
\* the calls of save_data and commit_changes it made, changed the value of
\* component._is_changed it tested.
Raised(exception, error, files, dir, made) ==
    [ok |-> FALSE, exception |-> exception, error |-> error, raised_in |-> "command",
     files |-> files, dir |-> dir, calls |-> made, changed |-> FALSE]

Returned(files, dir, made, changed) ==
    [ok |-> TRUE, exception |-> "", error |-> NoError, raised_in |-> "",
     files |-> files, dir |-> dir, calls |-> made, changed |-> changed]

SaveData(file) == [call |-> "save_data", file |-> file]

CommitChanges(file) == [call |-> "commit_changes", file |-> file]

\* The update-requirements branch of dependency() that saves whatever was
\* computed.
saved_requirements_uncompared(files, dir, existing, r) ==
    IF ~r.ok THEN Raised(r.exception, r.error, files, dir, <<>>)
    ELSE Returned(files,
                  [dir EXCEPT !.requirements = File([dependencies |-> r.requirements])],
                  <<SaveData(REQUIREMENTS_FILENAME), CommitChanges(REQUIREMENTS_FILENAME)>>,
                  TRUE)

\* The update-requirements branch of dependency() that adds the requirements
\* computed to the persisted ones that have other names.
saved_requirements_patched(files, dir, existing, r) ==
    IF ~r.ok THEN Raised(r.exception, r.error, files, dir, <<>>)
    ELSE IF same_requirements(existing["dependencies"], r.requirements)
    THEN Returned(files, dir, <<>>, FALSE)
    ELSE Returned(files,
                  [dir EXCEPT !.requirements = File([dependencies |->
                      SelectSeq(existing["dependencies"],
                                LAMBDA e : \A i \in 1..Len(r.requirements) :
                                               r.requirements[i].name # e.name)
                      \o r.requirements])],
                  <<SaveData(REQUIREMENTS_FILENAME), CommitChanges(REQUIREMENTS_FILENAME)>>,
                  TRUE)

\* The update-requirements branch of dependency() from the result r of
\* update_requirements on: if existing_requirements != requirements, then
\* save_requirements and commit_changes.
saved_requirements(files, dir, existing, r) ==
    IF ~r.ok THEN Raised(r.exception, r.error, files, dir, <<>>)
    ELSE IF same_requirements(existing["dependencies"], r.requirements)
    THEN Returned(files, dir, <<>>, FALSE)
    ELSE Returned(files,
                  [dir EXCEPT !.requirements = File([dependencies |-> r.requirements])],
                  <<SaveData(REQUIREMENTS_FILENAME), CommitChanges(REQUIREMENTS_FILENAME)>>,
                  TRUE)

\* dependency(components_dir, dependency_dir=dir,
\* dependency_subparser="update-requirements")
dependency_update_requirements(component_dir, files, dir) ==
    IF ~component_metadata_schema(load_metadata(dir))
    THEN Raised("SchemaError", Message("SchemaError", "", <<>>), files, dir, <<>>)
    ELSE IF ~load_requirements(dir).ok
    THEN Raised("SchemaError", Message("SchemaError", "", <<>>), files, dir, <<>>)
    ELSE saved_requirements(files, dir, load_requirements(dir).data,
             update_requirements(load_metadata(dir), component_dir, files))

\* main(): SchemaError and ComponentError raised by the command are caught
\* and handed to sys.exit as the error message; any other exception, and an
\* exception raised while the response is printed, leaves main uncaught.
\* [status, exception, error], status being "0", "message" or "uncaught".
main(r) ==
    [status |-> IF r.ok THEN "0"
                ELSE IF /\ r.raised_in = "command"
                        /\ r.exception \in {"SchemaError", "ComponentError"}
                THEN "message" ELSE "uncaught",
     exception |-> r.exception, error |-> r.error]

-----------------------------------------------------------------------------
(* cli.py: the release add, component get and component update commands     *)

\* main: print(yaml.dump(resp)), resp being the component or a release of
\* it; Component.to_yaml and Release.to_yaml call to_dict of the component,
\* d being its result.
printed(c, files, dir, made, changed, d) ==
    IF d.ok THEN Returned(files, dir, made, changed)
    ELSE [Raised("SchemaError", Message("SchemaError", c.name, <<>>), files, dir, made)
            EXCEPT !.raised_in = "print", !.changed = changed]

\* component.to_file() and commit_changes(releases_dir, components_dir, msg),
\* w being the result of to_file.
committed(c, dir, w) ==
    IF ~w.ok
    THEN [Raised(exception_of(w.error), Message(w.error, c.name, <<>>), w.files, dir,
                 IF w.writes = 1 THEN <<SaveData(c.name)>> ELSE <<>>)
            EXCEPT !.changed = TRUE]
    ELSE printed(c, w.files, dir, <<SaveData(c.name), CommitChanges(c.directory)>>,
                 TRUE, to_dict(c))

\* if component._is_changed: component.to_file(); commit_changes(...)
persisted(c, files, dir) ==
    IF ~_is_changed(c) THEN printed(c, files, dir, <<>>, FALSE, to_dict(c))
    ELSE committed(c, dir, to_file(c, files))

\* release add, after from_file: r is the result of create_release.
release_created(r, files, dir) ==
    IF ~r.ok
    THEN Raised("ComponentError", Message(r.error, r.component.name, <<>>),
                files, dir, <<>>)
    ELSE persisted(r.component, files, dir)

release_add_loaded(f, files, dir, release) ==
    IF ~f.ok
    THEN Raised(exception_of(f.error), Message(f.error, "", <<>>), files, dir, <<>>)
    ELSE release_created(
             create_release(f.component, release.version, release.sha, release.series),
             files, dir)

\* release(releases_dir, components_dir, component_name, "add", version, sha,
\* series_name)
release_add(component_dir, files, dir, component_name, release) ==
    release_add_loaded(from_file(component_name, component_dir, files),
                       files, dir, release)

component_get_loaded(f, files, dir) ==
    IF ~f.ok
    THEN Raised(exception_of(f.error), Message(f.error, "", <<>>), files, dir, <<>>)
    ELSE persisted(f.component, files, dir)

\* component(releases_dir, components_dir, "get", component_name)
component_get(component_dir, files, dir, component_name) ==
    component_get_loaded(from_file(component_name, component_dir, files), files, dir)

component_update_loaded(f, files, dir, new_name, repo_url, is_product) ==
    IF ~f.ok
    THEN Raised(exception_of(f.error), Message(f.error, "", <<>>), files, dir, <<>>)
    ELSE persisted([f.component EXCEPT
                        !.name = IF new_name # "" THEN new_name ELSE @,
                        !.repo_url = repo_url,
                        !.is_product = is_product],
                   files, dir)

\* component(releases_dir, components_dir, "update", component_name,
\* new_name, repo_url, is_product); new_name "" is the option not given.
component_update(component_dir, files, dir, component_name, new_name, repo_url, is_product) ==
    component_update_loaded(from_file(component_name, component_dir, files),
                            files, dir, new_name, repo_url, is_product)

-----------------------------------------------------------------------------
(* cli.py and component.py: commit_changes, component add and dependency    *)
(* set-dependency                                                           *)

\* commit_changes(repo_dir, files, message), the last statement of a command
\* that has written: r is what the command leaves when git add and git
\* commit succeed; when they do not (git_ok is false) GitCommandError leaves
\* the command after its writes, and nothing is printed.
commit_changes(r, git_ok) ==
    IF git_ok \/ ~\E i \in 1..Len(r.calls) : r.calls[i].call = "commit_changes"
    THEN r
    ELSE [Raised("GitCommandError", Message("git commit", "", <<>>), r.files, r.dir,
                 r.calls)
            EXCEPT !.changed = r.changed]

CloneFrom(url) == [call |-> "clone_from", file |-> url.path]

\* The repositories that exist at github.com, by the path of their URL.
Remotes == {"rcbops/test0", "rcbops/test1", "rcbops/test2", "rcbops/test3"}

\* git_http_to_ssh(url): whether the regex matches, which asks for
\* http(s)://github.com/owner/name; the paths in use that have an owner and a
\* name are those of Remotes and rcbops/gone.
git_http_to_ssh(url) ==
    [matched |-> /\ url.scheme \in {"http", "https"} /\ url.host = "github.com"
                 /\ url.path \in Remotes \cup {"rcbops/gone"},
     ssh_url |-> [scheme |-> "ssh", host |-> "github.com", path |-> url.path]]

\* component add after from_file raised ComponentError: the clone of the
\* repository, and then to_file and commit_changes of the new component c.
component_add_cloned(c, files, dir) ==
    IF ~git_http_to_ssh(c.repo_url).matched
    THEN Raised("AttributeError", Message("NoneType", c.name, <<>>), files, dir, <<>>)
    ELSE IF git_http_to_ssh(c.repo_url).ssh_url.path \notin Remotes
    THEN Raised("GitCommandError", Message("clone failed", c.name, <<>>), files, dir,
                <<CloneFrom(c.repo_url)>>)
    ELSE [persisted(c, files, dir) EXCEPT !.calls = <<CloneFrom(c.repo_url)>> \o @]

\* component add that does not test whether the component exists.
component_add_unchecked(f, c, files, dir) == component_add_cloned(c, files, dir)

component_add_loaded(f, c, files, dir) ==
    IF f.ok
    THEN Raised("ComponentError", Message("already exists", c.name, <<>>), files, dir, <<>>)
    ELSE IF exception_of(f.error) # "ComponentError"
    THEN Raised(exception_of(f.error), Message(f.error, c.name, <<>>), files, dir, <<>>)
    ELSE component_add_cloned(c, files, dir)

\* component(releases_dir, components_dir, "add", component_name, repo_url,
\* is_product)
component_add(component_dir, files, dir, component_name, repo_url, is_product) ==
    component_add_loaded(from_file(component_name, component_dir, files),
                         Component(component_name, repo_url, is_product, component_dir),
                         files, dir)

METADATA_FILENAME == "component_metadata.yml"

\* The index of the first dependency with the name, 0 when there is none.
first_named(dependencies, name) ==
    IF \E i \in 1..Len(dependencies) : dependencies[i].name = name
    THEN CHOOSE i \in 1..Len(dependencies) :
            /\ dependencies[i].name = name
            /\ \A j \in 1..(i - 1) : dependencies[j].name # name
    ELSE 0

\* set_dependency's loop that takes the entry of the name out and appends
\* the new one.
dependency_set_last(dependencies, name, constraints) ==
    Append(SelectSeq(dependencies, LAMBDA d : d.name # name),
           [name |-> name, constraints |-> constraints])

\* The for loop of set_dependency on the copy's list: the constraints of
\* the first dependency with the name are replaced, and without one the
\* else branch appends {name, constraints}.
dependency_set(dependencies, name, constraints) ==
    IF first_named(dependencies, name) = 0
    THEN Append(dependencies, [name |-> name, constraints |-> constraints])
    ELSE [dependencies EXCEPT ![first_named(dependencies, name)].constraints = constraints]

\* set_dependency(existing, name, constraints) for a list of constraints:
\* [ok, exception, data], data being the validated copy.
set_dependency(existing, name, constraints) ==
    IF "dependencies" \notin DOMAIN existing
    THEN [ok |-> FALSE, exception |-> "KeyError", data |-> existing]
    ELSE IF ~component_metadata_schema(
                [existing EXCEPT !["dependencies"] = dependency_set(@, name, constraints)])
    THEN [ok |-> FALSE, exception |-> "SchemaError", data |-> existing]
    ELSE [ok |-> TRUE, exception |-> "",
          data |-> [existing EXCEPT
                       !["dependencies"] = dependency_set(@, name, constraints)]]

\* data != metadata, on two metadata documents.
same_metadata(a, b) ==
    /\ DOMAIN a = DOMAIN b
    /\ \A k \in DOMAIN a : a[k] = b[k]

\* The set-dependency branch of dependency() from the result s of
\* set_dependency: if data != metadata or data == new_metadata, then
\* save_data and commit_changes; data has a dependency and new_metadata none.
saved_metadata(files, dir, metadata, s) ==
    IF ~s.ok
    THEN Raised(s.exception, Message(s.exception, "", <<>>), files, dir, <<>>)
    ELSE IF same_metadata(s.data, metadata)
    THEN Returned(files, dir, <<>>, FALSE)
    ELSE Returned(files, [dir EXCEPT !.metadata = File(s.data)],
                  <<SaveData(METADATA_FILENAME), CommitChanges(METADATA_FILENAME)>>,
                  TRUE)

\* dependency(components_dir, dependency_dir=dir,
\* dependency_subparser="set-dependency", name, constraints); without
\* --constraint (given is false) constraints is None, which no schema of
\* constraints accepts.
dependency_set_dependency(files, dir, name, given, constraints) ==
    IF ~component_metadata_schema(load_metadata(dir))
    THEN Raised("SchemaError", Message("SchemaError", "", <<>>), files, dir, <<>>)
    ELSE IF ~given /\ "dependencies" \in DOMAIN load_metadata(dir)
    THEN Raised("SchemaError", Message("SchemaError", "", <<>>), files, dir, <<>>)
    ELSE saved_metadata(files, dir, load_metadata(dir),
                        set_dependency(load_metadata(dir), name, constraints))

-----------------------------------------------------------------------------
(* The command line on a registry with test1 and test2 and a dependency     *)
(* directory                                                                *)

MaxCommands == 2

\* The components directory: test1 and test2 as in StoredDocuments, and
\* test0, registered without a release.
CliDocuments ==
    [n \in Names \cup {"test0"} |->
        IF n \in Names THEN StoredDocuments[n]
        ELSE [name |-> "test0", repo_url |-> GithubUrl("rcbops/test0"),
              is_product |-> FALSE, releases |-> <<>>]]

Dependency(name, constraints) == [name |-> name, constraints |-> Texts(constraints)]

\* The constraints written in the metadata.
CliConstraints ==
    { Constraint(">=", 1, 1, 0, "none", 0, 2),
      Constraint("<", 2, 0, 0, "none", 0, 1),
      Constraint(">", 10, 0, 0, "none", 0, 1) }

Pin(word) == [text |-> BranchPin(Letters(word)).text]

\* The metadata files: none; no dependency; test0 unconstrained; test1
\* unconstrained; test1 from
\* 1.1 on; test1 and test2 below 2; test1 and a component that is not
\* registered; test1 and test2 above 10; test2 at the branch master; test1 at
\* a branch its repository lacks; artifacts and no dependencies; and two
\* branch pins, which the schema rejects.
MetadataInputs ==
    { NoFile,
      File([dependencies |-> <<>>]),
      File([dependencies |-> <<Dependency("test0", <<>>)>>]),
      File([dependencies |-> <<Dependency("test1", <<>>)>>]),
      File([dependencies |->
          <<Dependency("test1", <<Constraint(">=", 1, 1, 0, "none", 0, 2)>>)>>]),
      File([dependencies |->
          <<Dependency("test1", <<>>),
            Dependency("test2", <<Constraint("<", 2, 0, 0, "none", 0, 1)>>)>>]),
      File([dependencies |->
          <<Dependency("test1", <<>>), Dependency("absent", <<>>)>>]),
      File([dependencies |->
          <<Dependency("test1", <<>>),
            Dependency("test2", <<Constraint(">", 10, 0, 0, "none", 0, 1)>>)>>]),
      File([dependencies |-> <<Dependency("test2", <<Pin("master")>>)>>]),
      File([dependencies |-> <<Dependency("test1", <<Pin("branch")>>)>>]),
      File([artifacts |-> <<[type |-> "log", source |-> "/var/log"]>>]),
      File([dependencies |->
          <<Dependency("test1", <<Pin("master"), Pin("branch")>>)>>]) }

\* The requirements files: none, and test1 at 1.0.0.
RequirementsInputs ==
    { NoFile,
      File([dependencies |->
          <<[name |-> "test1", ref |-> Plain(1, 0, 0).text, ref_type |-> "tag",
             repo_url |-> Url1, sha |-> Sha0, version |-> Plain(1, 0, 0).text]>>]) }

\* The releases given to release add: 1.1.0 for the series first, 2.0.0 for
\* a new series of test1, and 1.0.0 again.
CliReleases ==
    { [version |-> Plain(1, 1, 0).text, sha |-> Sha1, series |-> "first"],
      [version |-> Plain(2, 0, 0).text, sha |-> Sha2, series |-> "second"],
      [version |-> Plain(1, 0, 0).text, sha |-> Sha0, series |-> "first"] }

InitCli ==
    /\ components_dir = CliDocuments
    /\ \E metadata \in MetadataInputs, requirements \in RequirementsInputs :
        dependency_dir = [metadata |-> metadata, requirements |-> requirements]
    /\ commands = 0
    /\ calls = <<>>
    /\ exit = NotExited
    /\ IdleExcept("cli")

\* The command has run with the result r.
Ran(command, args, r) ==
    /\ components_dir' = r.files
    /\ dependency_dir' = r.dir
    /\ commands' = commands + 1
    /\ calls' = r.calls
    /\ exit' = [command |-> command, args |-> args, status |-> main(r).status,
                exception |-> r.exception, error |-> r.error, changed |-> r.changed,
                files_before |-> components_dir, dir_before |-> dependency_dir]
    /\ UNCHANGED notCli

\* rpc-component dependency update-requirements
UpdateRequirements ==
    /\ commands < MaxCommands
    /\ \E r \in {dependency_update_requirements(ComponentsDir, components_dir,
                                                dependency_dir)} :
        Ran("update-requirements", [component_name |-> ""], r)

\* rpc-component release --component-name NAME add --version V --sha SHA
\* --series-name S
ReleaseAdd(component_name, release) ==
    /\ commands < MaxCommands
    /\ \E r \in {release_add(ComponentsDir, components_dir, dependency_dir,
                             component_name, release)} :
        Ran("release add", [component_name |-> component_name, release |-> release], r)

\* rpc-component get --component-name NAME
ComponentGet(component_name) ==
    /\ commands < MaxCommands
    /\ \E r \in {component_get(ComponentsDir, components_dir, dependency_dir,
                               component_name)} :
        Ran("get", [component_name |-> component_name], r)

\* rpc-component update --component-name NAME --repo-url URL [--is-product]
\* [--new-name NEW]
ComponentUpdate(component_name, new_name, repo_url, is_product) ==
    /\ commands < MaxCommands
    /\ \E r \in {component_update(ComponentsDir, components_dir, dependency_dir,
                                  component_name, new_name, repo_url, is_product)} :
        Ran("update", [component_name |-> component_name, new_name |-> new_name,
                       repo_url |-> repo_url, is_product |-> is_product], r)

NextCli ==
    \/ UpdateRequirements
    \/ \E release \in CliReleases : ReleaseAdd("test1", release)
    \/ \E release \in {r \in CliReleases : r.series = "second"} : ReleaseAdd("absent", release)
    \/ \E name \in {"test1", "absent"} : ComponentGet(name)
    \/ \E new_name \in {"", "test3"}, repo_url \in {Url1, Url2} :
        ComponentUpdate("test1", new_name, repo_url, FALSE)

SpecCli == InitCli /\ [][NextCli]_vars

\* The constraint a text of the metadata was written from.
ConstraintOf(text) == CHOOSE c \in CliConstraints : c.text = text

IsPin(constraints) ==
    Len(constraints) = 1 /\ constraints[1] \in {Pin("master").text, Pin("branch").text}

\* The dependency can be resolved on the registry `files`: its component is
\* registered, and its branch exists or a release satisfies its constraints.
Resolves(dependency, files) ==
    /\ dependency.name \in DOMAIN files
    /\ IF IsPin(dependency.constraints)
       THEN dependency.constraints[1] = Pin("master").text
       ELSE Qualifying(flatten(files[dependency.name].releases),
                       [i \in 1..Len(dependency.constraints) |->
                           ConstraintOf(dependency.constraints[i])]) # {}

\* The dependencies of a directory's metadata, when the command can read them.
Readable(dir) ==
    /\ component_metadata_schema(load_metadata(dir))
    /\ "dependencies" \in DOMAIN load_metadata(dir)

Persisted(dir) ==
    IF dir.requirements.exists THEN dir.requirements.data["dependencies"] ELSE <<>>

Saved == \E i \in 1..Len(calls) : calls[i].call = "save_data"

Committed == \E i \in 1..Len(calls) : calls[i].call = "commit_changes"

\* C15: update-requirements writes and commits the requirements document
\* only if every dependency was resolved and the document computed differs
\* from the persisted one, a missing file counting as the empty list; when a
\* dependency cannot be resolved (its component is not registered, no release
\* satisfies its constraints) the command fails and the persisted document
\* is as before: nothing partial is written.
C15_RequirementsWrittenOnlyWhenResolvedAndChanged ==
    exit.command = "update-requirements" =>
        /\ components_dir = exit.files_before
        /\ dependency_dir.metadata = exit.dir_before.metadata
        /\ (Saved \/ Committed) =>
            /\ calls = <<SaveData(REQUIREMENTS_FILENAME), CommitChanges(REQUIREMENTS_FILENAME)>>
            /\ exit.status = "0"
            /\ Readable(exit.dir_before)
            /\ \A i \in 1..Len(load_metadata(exit.dir_before)["dependencies"]) :
                Resolves(load_metadata(exit.dir_before)["dependencies"][i], components_dir)
            /\ ~same_requirements(Persisted(dependency_dir), Persisted(exit.dir_before))
            /\ Len(Persisted(dependency_dir))
                = Len(load_metadata(exit.dir_before)["dependencies"])
        /\ ~Saved => dependency_dir = exit.dir_before
        /\ (/\ Readable(exit.dir_before)
            /\ \E i \in 1..Len(load_metadata(exit.dir_before)["dependencies"]) :
                ~Resolves(load_metadata(exit.dir_before)["dependencies"][i], components_dir))
            => /\ exit.status # "0"
               /\ calls = <<>>
               /\ dependency_dir = exit.dir_before

\* The first dependency was resolved and the second has no release above
\* 10: the command failed, and the requirements file is as it was.
C15_Witness ==
    /\ exit.command = "update-requirements" /\ exit.status # "0"
    /\ Readable(exit.dir_before)
    /\ Len(load_metadata(exit.dir_before)["dependencies"]) = 2
    /\ Resolves(load_metadata(exit.dir_before)["dependencies"][1], components_dir)
    /\ ~Resolves(load_metadata(exit.dir_before)["dependencies"][2], components_dir)
    /\ exit.error.text = "has no version matching the constraints"
    /\ exit.dir_before.requirements.exists
    /\ calls = <<>> /\ dependency_dir = exit.dir_before

\* The command ran twice: the first run wrote and committed two
\* requirements, the second computed the same document and wrote nothing.
C15_SecondRunWritesNothing ==
    /\ exit.command = "update-requirements" /\ exit.status = "0"
    /\ commands = 2 /\ calls = <<>>
    /\ Len(Persisted(dependency_dir)) = 2
    /\ dependency_dir = exit.dir_before

\* A requirements file was replaced by a document that differs from it.
C15_Written ==
    /\ exit.command = "update-requirements" /\ Saved /\ Committed
    /\ exit.dir_before.requirements.exists
    /\ Len(Persisted(dependency_dir)) = 1
    /\ Persisted(dependency_dir)[1].ref_type = "branch"

\* The first dependency of the list that cannot be resolved is registered,
\* has version constraints, and none of its releases satisfies them.
FirstFailureIsNoMatch(dependencies, files, i) ==
    /\ \A j \in 1..(i - 1) : Resolves(dependencies[j], files)
    /\ dependencies[i].name \in DOMAIN files
    /\ ~IsPin(dependencies[i].constraints)
    /\ ~Resolves(dependencies[i], files)

\* C16 (as claimed): when no release of the component satisfies all the
\* constraints (also for a component without releases and an empty list of
\* constraints), the resolution fails with the no-match error, which reports
\* the component name and the constraints; no requirement is returned, and
\* the failure reaches the command line as a reported error message: main
\* exits with the message.
C16_NoMatchReportedAtTheCommandLine ==
    (exit.command = "update-requirements" /\ Readable(exit.dir_before)) =>
        \A i \in 1..Len(load_metadata(exit.dir_before)["dependencies"]) :
            FirstFailureIsNoMatch(load_metadata(exit.dir_before)["dependencies"],
                                  components_dir, i) =>
                /\ exit.error.text = "has no version matching the constraints"
                /\ exit.error.c_name = load_metadata(exit.dir_before)["dependencies"][i].name
                /\ exit.error.cs = load_metadata(exit.dir_before)["dependencies"][i].constraints
                /\ calls = <<>> /\ dependency_dir = exit.dir_before
                /\ exit.status = "message"

\* test0 has no release and the dependency on it no constraint: the no-match
\* error, an Exception, has left main uncaught.
C16_NoMatchLeavesMainUncaught ==
    /\ exit.command = "update-requirements"
    /\ exit.status = "uncaught" /\ exit.exception = "Exception"
    /\ exit.error = Message("has no version matching the constraints", "test0", <<>>)
    /\ calls = <<>> /\ dependency_dir = exit.dir_before

\* C16 without its last part: the no-match error is raised with the name
\* and the constraints, nothing is written, and the command does not succeed.
C16_NoMatchRaised ==
    (exit.command = "update-requirements" /\ Readable(exit.dir_before)) =>
        \A i \in 1..Len(load_metadata(exit.dir_before)["dependencies"]) :
            FirstFailureIsNoMatch(load_metadata(exit.dir_before)["dependencies"],
                                  components_dir, i) =>
                /\ exit.error.text = "has no version matching the constraints"
                /\ exit.error.c_name = load_metadata(exit.dir_before)["dependencies"][i].name
                /\ exit.error.cs = load_metadata(exit.dir_before)["dependencies"][i].constraints
                /\ calls = <<>> /\ dependency_dir = exit.dir_before
                /\ exit.status # "0" /\ exit.exception = "Exception"

\* An unregistered component is reported by main: ComponentError is caught.
C16_NotFoundReported ==
    /\ exit.command = "update-requirements"
    /\ exit.status = "message" /\ exit.exception = "ComponentError"
    /\ exit.error.text = "could not be found"

\* The versions of a stored document.
VersionsIn(document) == {r.version : r \in ReleaseSet(document)}

\* The command got as far as testing component._is_changed: the component
\* was loaded and, for release add, the release created.
ReachedTheTest ==
    /\ exit.command \in {"get", "update", "release add"}
    /\ exit.args.component_name \in DOMAIN exit.files_before
    /\ exit.command = "release add" =>
        exit.args.release.version
            \notin VersionsIn(exit.files_before[exit.args.component_name])

\* The command has changed the component it loaded.
Changes ==
    \/ exit.command = "release add"
    \/ /\ exit.command = "update"
       /\ \/ exit.args.new_name \notin {"", exit.args.component_name}
          \/ exit.args.repo_url # exit.files_before[exit.args.component_name].repo_url
          \/ exit.args.is_product # exit.files_before[exit.args.component_name].is_product

\* The name of the file the command writes.
WrittenName ==
    IF exit.command = "update" /\ exit.args.new_name # ""
    THEN exit.args.new_name ELSE exit.args.component_name

\* C19 (as claimed): persistence is skipped when no change is detected, and
\* a changed component is written exactly once: component get, component
\* update and release add make neither a write nor a commit when the
\* component is unchanged, and when it is changed make one write and then
\* the commit.
C19_WrittenOnceIffChanged ==
    ReachedTheTest =>
        /\ exit.changed <=> Changes
        /\ ~Changes => calls = <<>> /\ components_dir = exit.files_before
        /\ Changes =>
            /\ calls = <<SaveData(WrittenName), CommitChanges(ComponentsDir)>>
            /\ WrittenName \in DOMAIN components_dir
        /\ dependency_dir = exit.dir_before

\* release add of 1.1.0 to the series first of test1: the component is
\* changed, to_file raised SchemaError, and nothing was written or committed.
C19_ChangedAndNotWritten ==
    /\ exit.command = "release add" /\ exit.changed
    /\ exit.args.component_name = "test1"
    /\ exit.args.release.version = Plain(1, 1, 0).text
    /\ exit.status = "message" /\ exit.exception = "SchemaError"
    /\ calls = <<>> /\ components_dir = exit.files_before

\* What the commands do: without a change neither a write nor a commit, and
\* never a commit that does not follow the one write.
C19_NoWriteWithoutChange ==
    ReachedTheTest =>
        /\ exit.changed <=> Changes
        /\ ~Changes => calls = <<>> /\ components_dir = exit.files_before
        /\ calls # <<>> =>
            /\ Changes
            /\ calls = <<SaveData(WrittenName), CommitChanges(ComponentsDir)>>
        /\ (Changes /\ exit.status = "0") =>
            calls = <<SaveData(WrittenName), CommitChanges(ComponentsDir)>>

\* component update with the stored values has written nothing; release add
\* of 2.0.0 in a new series has written and then committed.
C19_UnchangedUpdate ==
    /\ exit.command = "update" /\ exit.status = "0" /\ ~exit.changed
    /\ calls = <<>>

C19_WrittenThenCommitted ==
    /\ exit.command = "release add" /\ exit.status = "0"
    /\ calls = <<SaveData("test1"), CommitChanges(ComponentsDir)>>
    /\ Plain(2, 0, 0).text \in VersionsIn(components_dir["test1"])

\* Component.to_file on any component: no call of save_data and the files as
\* they were when _is_changed is false, at most one call otherwise, and
\* exactly one when to_file returns.
C19_ToFileWritesOnlyWhenChanged ==
    last.op = "to_file" =>
        /\ ~last.was_changed => last.writes = 0 /\ stored = last.files_before /\ last.ok
        /\ last.was_changed => last.writes <= 1
        /\ (last.was_changed /\ last.ok) => last.writes = 1
        /\ last.writes = 0 => stored = last.files_before

-----------------------------------------------------------------------------
(* update_requirements on one dependency: the requirement resolved from     *)
(* version constraints and the one resolved from a branch pin               *)

\* The branch pins of the dependencies: the branch every repository has, and
\* one that no repository has.
RequirementPins == { BranchPin(Letters("master")), BranchPin(Letters("branch")) }

\* The components resolved: those of SpecResolve, and test2 as loaded from
\* its file.
RequirementComponents ==
    ResolveComponents \cup {from_file("test2", ComponentsDir, StoredDocuments).component}

InitRequirement ==
    /\ rcomp \in RequirementComponents
    /\ cons = <<>>
    /\ req = NotResolved
    /\ IdleExcept("resolve")

\* The body of the loop of update_requirements for the dependency on rcomp
\* with the constraints cons, which the metadata schema has accepted.
Require ==
    /\ constraints_schema(Texts(cons))
    /\ \E r \in {dependency_requirement(
                    [name |-> rcomp.name, constraints |-> Texts(cons)],
                    [ok |-> TRUE, error |-> "", component |-> rcomp])} :
        /\ req' = [done |-> TRUE, ok |-> r.ok, exception |-> r.exception,
                   requirement |-> r.requirement]
        /\ UNCHANGED <<rcomp, cons, notResolve>>

NextRequirement ==
    \/ \E c \in ResolveConstraints \cup RequirementPins : Constrain(c)
    \/ Require

SpecRequirement == InitRequirement /\ [][NextRequirement]_vars

\* The name of the branch a pin was written from.
PinnedBranch(pin) == CHOOSE name \in {Letters("master"), Letters("branch")} : BranchPin(name) = pin

\* C21: a requirement resolved from version constraints has ref_type tag,
\* ref and version both equal to the version id of the selected release, sha
\* equal to that release's sha, and the name and repo_url of the component; a
\* requirement resolved from a branch pin has ref_type branch, ref equal to
\* the branch name, version null and sha equal to the tip of the branch in
\* the cloned repository, whatever the releases of the component are.
C21_RequirementFields ==
    (req.done /\ req.ok) =>
        /\ req.requirement.name = rcomp.name
        /\ req.requirement.repo_url = rcomp.repo_url
        /\ IF Len(cons) = 1 /\ cons[1] \in RequirementPins
           THEN /\ req.requirement.ref_type = "branch"
                /\ req.requirement.ref = PinnedBranch(cons[1])
                /\ req.requirement.version = NoGroup
                /\ req.requirement.sha
                    = clone_from(rcomp.repo_url, PinnedBranch(cons[1])).hexsha
           ELSE /\ req.requirement.ref_type = "tag"
                /\ \E i \in Qualifying(rcomp.releases, cons) :
                    /\ req.requirement.ref = rcomp.releases[i].version
                    /\ req.requirement.version = rcomp.releases[i].version
                    /\ req.requirement.sha = rcomp.releases[i].sha

\* The pin to master was resolved on the component that has no release.
C21_Witness ==
    /\ req.done /\ req.ok
    /\ rcomp.releases = <<>>
    /\ cons = <<BranchPin(Letters("master"))>>
    /\ req.requirement.ref_type = "branch" /\ req.requirement.sha = Sha2
    /\ req.requirement.version = NoGroup

\* test2 below 2 was resolved to its release 1.1.0 at Sha1.
C21_TagOfTest2 ==
    /\ req.done /\ req.ok
    /\ rcomp.name = "test2"
    /\ cons = <<Constraint("<", 2, 0, 0, "none", 0, 1)>>
    /\ req.requirement.ref_type = "tag" /\ req.requirement.sha = Sha1
    /\ req.requirement.version = Plain(1, 1, 0).text

\* The pin to a branch the repository lacks has raised the error of the clone.
C21_MissingBranch ==
    /\ req.done /\ ~req.ok /\ req.exception = "GitCommandError"
    /\ cons = <<BranchPin(Letters("branch"))>>

-----------------------------------------------------------------------------
(* The commands that write, with either outcome of commit_changes           *)

\* rpc-component add --component-name NAME --repo-url URL
ComponentAdd(component_name, repo_url, is_product, git_ok) ==
    /\ commands < MaxCommands
    /\ \E r \in {commit_changes(
                    component_add(ComponentsDir, components_dir, dependency_dir,
                                  component_name, repo_url, is_product), git_ok)} :
        Ran("add", [component_name |-> component_name, repo_url |-> repo_url,
                    is_product |-> is_product], r)

\* rpc-component dependency set-dependency --name NAME [--constraint C]...
SetDependency(name, constraints, git_ok) ==
    /\ commands < MaxCommands
    /\ \E r \in {commit_changes(
                    dependency_set_dependency(components_dir, dependency_dir, name,
                                              constraints.given, constraints.list),
                    git_ok)} :
        Ran("set-dependency", [component_name |-> name, constraints |-> constraints], r)

\* component update, release add and update-requirements with the outcome of
\* their commit.
ComponentUpdateCommitting(component_name, new_name, repo_url, is_product, git_ok) ==
    /\ commands < MaxCommands
    /\ \E r \in {commit_changes(
                    component_update(ComponentsDir, components_dir, dependency_dir,
                                     component_name, new_name, repo_url, is_product),
                    git_ok)} :
        Ran("update", [component_name |-> component_name, new_name |-> new_name,
                       repo_url |-> repo_url, is_product |-> is_product], r)

ReleaseAddCommitting(component_name, release, git_ok) ==
    /\ commands < MaxCommands
    /\ \E r \in {commit_changes(
                    release_add(ComponentsDir, components_dir, dependency_dir,
                                component_name, release), git_ok)} :
        Ran("release add", [component_name |-> component_name, release |-> release], r)

UpdateRequirementsCommitting(git_ok) ==
    /\ commands < MaxCommands
    /\ \E r \in {commit_changes(
                    dependency_update_requirements(ComponentsDir, components_dir,
                                                   dependency_dir), git_ok)} :
        Ran("update-requirements", [component_name |-> ""], r)

\* The dependency directories of the commands that write: without files,
\* and with the metadata of test1 from 1.1 on.
InitWrites ==
    /\ components_dir = CliDocuments
    /\ \E metadata \in {NoFile,
                         File([dependencies |->
                             <<Dependency("test1",
                                 <<Constraint(">=", 1, 1, 0, "none", 0, 2)>>)>>])} :
        dependency_dir = [metadata |-> metadata, requirements |-> NoFile]
    /\ commands = 0
    /\ calls = <<>>
    /\ exit = NotExited
    /\ IdleExcept("cli")

\* The arguments of add: a registered name; a new name with the URL of a
\* repository, of none, and without the name of a repository.
AddInputs ==
    { [name |-> "test1", repo_url |-> GithubUrl("rcbops/test3")],
      [name |-> "test3", repo_url |-> GithubUrl("rcbops/test3")],
      [name |-> "test3", repo_url |-> GithubUrl("rcbops/gone")],
      [name |-> "test3", repo_url |-> GithubUrl("rcbops")] }

\* The arguments of update for test1: nothing new, a new name, the name of
\* test2, and another URL.
UpdateInputs ==
    { [new_name |-> "", repo_url |-> Url1], [new_name |-> "test3", repo_url |-> Url1],
      [new_name |-> "test2", repo_url |-> Url1], [new_name |-> "", repo_url |-> Url2] }

\* The arguments of set-dependency.
SetInputs ==
    { [name |-> "test1", constraints |-> [given |-> TRUE, list |->
          Texts(<<Constraint(">=", 1, 1, 0, "none", 0, 2)>>)]],
      [name |-> "test2", constraints |-> [given |-> TRUE, list |-> <<Pin("master").text>>]],
      [name |-> "test1", constraints |-> [given |-> FALSE, list |-> <<>>]] }

NextWrites ==
    \/ \E a \in AddInputs, git_ok \in BOOLEAN :
        ComponentAdd(a.name, a.repo_url, FALSE, git_ok)
    \/ \E u \in UpdateInputs, git_ok \in BOOLEAN :
        ComponentUpdateCommitting("test1", u.new_name, u.repo_url, FALSE, git_ok)
    \/ \E release \in {r \in CliReleases : r.version # Plain(1, 0, 0).text},
          git_ok \in BOOLEAN :
        ReleaseAddCommitting("test1", release, git_ok)
    \/ \E d \in SetInputs, git_ok \in BOOLEAN :
        SetDependency(d.name, d.constraints, git_ok)
    \/ \E git_ok \in BOOLEAN : UpdateRequirementsCommitting(git_ok)

SpecWrites == InitWrites /\ [][NextWrites]_vars

MutatingCommands == {"add", "update", "release add", "set-dependency", "update-requirements"}

\* The command has left a document other than it found it.
Written == components_dir # exit.files_before \/ dependency_dir # exit.dir_before

\* commit_changes was called and raised.
CommitFailed == Committed /\ exit.exception = "GitCommandError"

\* C24 (as claimed): in every mutating command (component add and update,
\* release add, set-dependency, update-requirements) either all the document
\* writes of the command happen, with a successful commit, or nothing is
\* written: a failure of the commit step leaves no document written by the
\* command.
C24_WrittenOnlyWithASuccessfulCommit ==
    exit.command \in MutatingCommands =>
        /\ Written => (Committed /\ ~CommitFailed)
        /\ CommitFailed => ~Written

\* component add of test3: the commit failed, and test3.yml is in the
\* registry, where it was not before.
C24_WrittenAndNotCommitted ==
    /\ exit.command = "add" /\ CommitFailed /\ exit.status = "uncaught"
    /\ "test3" \notin DOMAIN exit.files_before
    /\ "test3" \in DOMAIN components_dir

\* set-dependency and update-requirements have left their file written after
\* a failed commit too.
C24_MetadataWrittenAndNotCommitted ==
    /\ exit.command = "set-dependency" /\ CommitFailed
    /\ dependency_dir.metadata # exit.dir_before.metadata

C24_RequirementsWrittenAndNotCommitted ==
    /\ exit.command = "update-requirements" /\ CommitFailed
    /\ dependency_dir.requirements.exists /\ ~exit.dir_before.requirements.exists

\* What the commands do: a document is written only by a command that then
\* calls commit_changes, the write coming first; a command that fails before
\* its commit has written nothing, and one that returns has committed what
\* it wrote.
C24_WriteThenCommit ==
    exit.command \in MutatingCommands =>
        /\ Written =>
            \E i, j \in 1..Len(calls) :
                i < j /\ calls[i].call = "save_data" /\ calls[j].call = "commit_changes"
        /\ (exit.status # "0" /\ ~Committed) => ~Written
        /\ (exit.status = "0" /\ Written) => (Committed /\ ~CommitFailed)

\* The releases of a registered component, in the order of its document.
Registered_releases(files, name) == flatten(files[name].releases)

\* The release that the constraints select: one that satisfies them all and
\* whose key no other such release exceeds.
Selected(releases, constraints) ==
    CHOOSE i \in Qualifying(releases, constraints) :
        \A j \in Qualifying(releases, constraints) :
            ~LexLess(ReleaseKey(releases[i]), ReleaseKey(releases[j]))

\* The requirement of a dependency that resolves, written from the metadata
\* entry and the registry.
ExpectedRequirement(dependency, files) ==
    IF IsPin(dependency.constraints)
    THEN [name |-> dependency.name, ref |-> Letters("master"), ref_type |-> "branch",
          repo_url |-> files[dependency.name].repo_url, sha |-> Sha2,
          version |-> NoGroup]
    ELSE [name |-> dependency.name,
          ref |-> Registered_releases(files, dependency.name)[
                      Selected(Registered_releases(files, dependency.name),
                               [i \in 1..Len(dependency.constraints) |->
                                   ConstraintOf(dependency.constraints[i])])].version,
          ref_type |-> "tag",
          repo_url |-> files[dependency.name].repo_url,
          sha |-> Registered_releases(files, dependency.name)[
                      Selected(Registered_releases(files, dependency.name),
                               [i \in 1..Len(dependency.constraints) |->
                                   ConstraintOf(dependency.constraints[i])])].sha,
          version |-> Registered_releases(files, dependency.name)[
                      Selected(Registered_releases(files, dependency.name),
                               [i \in 1..Len(dependency.constraints) |->
                                   ConstraintOf(dependency.constraints[i])])].version]

\* C26: the requirements document of update-requirements is determined by
\* the dependency list of the metadata and the registry alone: it holds
\* exactly one requirement per dependency entry, in the order of the metadata
\* and with the name of the dependency, and is the same whatever the
\* requirements document persisted before contained.
C26_RequirementsRegenerated ==
    (exit.command = "update-requirements" /\ exit.status = "0") =>
        /\ Readable(exit.dir_before)
        /\ Len(Persisted(dependency_dir))
            = Len(load_metadata(exit.dir_before)["dependencies"])
        /\ \A i \in 1..Len(Persisted(dependency_dir)) :
            /\ Persisted(dependency_dir)[i].name
                = load_metadata(exit.dir_before)["dependencies"][i].name
            /\ Persisted(dependency_dir)[i]
                = ExpectedRequirement(load_metadata(exit.dir_before)["dependencies"][i],
                                      exit.files_before)

\* The persisted document held test1 at 1.0.0 and the metadata names test2
\* only, at the branch master: the document written holds test2 and nothing
\* of test1.
C26_Witness ==
    /\ exit.command = "update-requirements" /\ exit.status = "0" /\ Saved
    /\ Len(Persisted(exit.dir_before)) = 1
    /\ Persisted(exit.dir_before)[1].name = "test1"
    /\ Len(Persisted(dependency_dir)) = 1
    /\ Persisted(dependency_dir)[1].name = "test2"
    /\ Persisted(dependency_dir)[1].ref_type = "branch"

\* Two dependencies were resolved in the order of the metadata, from a
\* directory without a requirements file.
C26_TwoInOrder ==
    /\ exit.command = "update-requirements" /\ exit.status = "0" /\ Saved
    /\ ~exit.dir_before.requirements.exists
    /\ Len(Persisted(dependency_dir)) = 2
    /\ Persisted(dependency_dir)[1].name = "test1"
    /\ Persisted(dependency_dir)[2].name = "test2"

\* C27: component add with a name whose document is in the registry fails
\* with the already-exists error before any clone, write or commit, and
\* leaves the registry as it was; so adding a name twice never overwrites
\* the first registration.
C27_AddOfARegisteredNameRefused ==
    (exit.command = "add" /\ exit.args.component_name \in DOMAIN exit.files_before) =>
        /\ exit.status = "message" /\ exit.exception = "ComponentError"
        /\ exit.error = Message("already exists", exit.args.component_name, <<>>)
        /\ calls = <<>>
        /\ components_dir = exit.files_before
        /\ dependency_dir = exit.dir_before

\* test3 was added, and added again with another URL: the second command
\* failed and test3.yml holds the first URL.
C27_Witness ==
    /\ exit.command = "add" /\ commands = 2
    /\ exit.args.component_name = "test3"
    /\ "test3" \in DOMAIN exit.files_before
    /\ exit.args.repo_url = GithubUrl("rcbops/gone")
    /\ components_dir["test3"].repo_url = GithubUrl("rcbops/test3")
    /\ exit.status = "message" /\ calls = <<>>

\* A new name was registered after the clone of its repository.
C27_NewNameRegistered ==
    /\ exit.command = "add" /\ exit.status = "0"
    /\ "test3" \notin DOMAIN exit.files_before
    /\ calls = <<CloneFrom(GithubUrl("rcbops/test3")), SaveData("test3"),
                 CommitChanges(ComponentsDir)>>
    /\ components_dir["test3"].releases = <<>>

\* The update was given a name other than the component's.
Renames ==
    /\ exit.command = "update"
    /\ exit.args.component_name \in DOMAIN exit.files_before
    /\ exit.args.new_name \notin {"", exit.args.component_name}

\* The document of the renamed component is stored under the new name and
\* not under the old one, with its other fields as before.
StoredOnceUnderTheNewName ==
    /\ exit.args.component_name \notin DOMAIN components_dir
    /\ exit.args.new_name \in DOMAIN components_dir
    /\ components_dir[exit.args.new_name]
        = [exit.files_before[exit.args.component_name] EXCEPT
              !.name = exit.args.new_name, !.repo_url = exit.args.repo_url,
              !.is_product = exit.args.is_product]

\* The documents of the other components are as they were.
OthersKept ==
    \A n \in DOMAIN exit.files_before \ {exit.args.component_name} :
        n \in DOMAIN components_dir /\ components_dir[n] = exit.files_before[n]

\* C28 (as claimed): component update with a new name writes the document
\* of the component under the new name and removes the one under the old
\* name, so that the renamed component is stored exactly once; and no
\* component update overwrites or removes the document of a different,
\* registered component.
C28_RenameKeepsOtherComponents ==
    exit.command = "update" =>
        /\ (Renames /\ Written) => StoredOnceUnderTheNewName
        /\ OthersKept

\* test1 was renamed to test2, which was registered: test2.yml holds the
\* releases of test1, test1.yml is removed, and the document of test2 is lost.
C28_RegisteredComponentOverwritten ==
    /\ Renames /\ exit.status = "0"
    /\ exit.args.component_name = "test1" /\ exit.args.new_name = "test2"
    /\ "test2" \in DOMAIN exit.files_before
    /\ components_dir["test2"] # exit.files_before["test2"]
    /\ components_dir["test2"].releases = exit.files_before["test1"].releases
    /\ "test1" \notin DOMAIN components_dir

\* C28 for a new name that is not registered: the renamed component is
\* stored once, and every other document is as it was; an update without a
\* new name keeps the other documents too.
C28_RenameToAFreeName ==
    (exit.command = "update" /\ exit.args.new_name \notin DOMAIN exit.files_before) =>
        /\ (Renames /\ Written) => StoredOnceUnderTheNewName
        /\ OthersKept

\* test1 was renamed to test3.
C28_Renamed ==
    /\ Renames /\ exit.status = "0" /\ exit.args.new_name = "test3"
    /\ StoredOnceUnderTheNewName /\ OthersKept
    /\ calls = <<SaveData("test3"), CommitChanges(ComponentsDir)>>

-----------------------------------------------------------------------------
(* set_dependency and update_requirements called on a metadata document:    *)
(* dependency_dir.metadata is the document the caller holds, which is the   *)
(* one set_dependency returned, or the one it handed to update_requirements *)

\* The constraints given to set_dependency: none, a version range, two
\* ranges, a branch pin, and two branch pins.
SetConstraints ==
    { <<>>,
      Texts(<<Constraint(">=", 1, 1, 0, "none", 0, 2)>>),
      Texts(<<Constraint(">=", 1, 1, 0, "none", 0, 2), Constraint("<", 2, 0, 0, "none", 0, 1)>>),
      <<Pin("master").text>>,
      <<Pin("master").text, Pin("branch").text>> }

\* The caller holds a document that component_metadata_schema accepts.
InitMetadata ==
    /\ components_dir = CliDocuments
    /\ \E metadata \in {m \in MetadataInputs \ {NoFile} : component_metadata_schema(m.data)} :
        dependency_dir = [metadata |-> metadata, requirements |-> NoFile]
    /\ commands = 0
    /\ calls = <<>>
    /\ exit = NotExited
    /\ IdleExcept("cli")

\* data = set_dependency(existing, name, constraints); the caller goes on
\* with data.
CallSetDependency(name, constraints) ==
    /\ commands < MaxCommands
    /\ \E s \in {set_dependency(load_metadata(dependency_dir), name, constraints)} :
        /\ exit' = [command |-> "set_dependency",
                    args |-> [name |-> name, constraints |-> constraints],
                    ok |-> s.ok, exception |-> s.exception, data |-> s.data,
                    existing_before |-> load_metadata(dependency_dir),
                    existing |-> load_metadata(dependency_dir)]
        /\ dependency_dir' = IF s.ok THEN [dependency_dir EXCEPT !.metadata = File(s.data)]
                             ELSE dependency_dir
    /\ commands' = commands + 1
    /\ UNCHANGED <<components_dir, calls, notCli>>

\* requirements = update_requirements(metadata, component_dir); the caller
\* holds metadata as the call has left it.
CallUpdateRequirements ==
    /\ commands < MaxCommands
    /\ \E r \in {update_requirements(load_metadata(dependency_dir), ComponentsDir,
                                     components_dir)} :
        /\ exit' = [command |-> "update_requirements", ok |-> r.ok,
                    exception |-> r.exception, requirements |-> r.requirements,
                    metadata_before |-> load_metadata(dependency_dir),
                    metadata |-> metadata_left(load_metadata(dependency_dir),
                                               ComponentsDir, components_dir)]
        /\ dependency_dir' =
            [dependency_dir EXCEPT
                !.metadata = File(metadata_left(load_metadata(dependency_dir),
                                                ComponentsDir, components_dir))]
    /\ commands' = commands + 1
    /\ UNCHANGED <<components_dir, calls, notCli>>

NextMetadata ==
    \/ \E name \in {"test1", "test2", "test3"}, constraints \in SetConstraints :
        CallSetDependency(name, constraints)
    \/ CallUpdateRequirements

SpecMetadata == InitMetadata /\ [][NextMetadata]_vars

\* C29 (as claimed): update_requirements leaves its metadata argument
\* unchanged: after the call every dependency entry has the list of
\* constraints it had before the call, for version-constrained,
\* unconstrained and branch-pinned dependencies alike.
C29_MetadataUnchanged ==
    exit.command = "update_requirements" =>
        same_metadata(exit.metadata, exit.metadata_before)

\* The dependency on test2 was pinned to the branch master: the call has
\* returned its requirement, and the entry of the metadata has no constraint
\* left.
C29_BranchPinRemoved ==
    /\ exit.command = "update_requirements" /\ exit.ok
    /\ Len(exit.requirements) = 1 /\ exit.requirements[1].ref_type = "branch"
    /\ exit.metadata_before["dependencies"][1].constraints = <<Pin("master").text>>
    /\ exit.metadata["dependencies"][1].constraints = <<>>

\* C29 for the dependencies that are not pinned to a branch: their
\* constraints are as before the call, whether it returned or raised.
C29_VersionConstraintsKept ==
    (exit.command = "update_requirements" /\ "dependencies" \in DOMAIN exit.metadata_before) =>
        /\ Len(exit.metadata["dependencies"]) = Len(exit.metadata_before["dependencies"])
        /\ \A i \in 1..Len(exit.metadata_before["dependencies"]) :
            /\ exit.metadata["dependencies"][i].name
                = exit.metadata_before["dependencies"][i].name
            /\ ~IsPin(exit.metadata_before["dependencies"][i].constraints) =>
                exit.metadata["dependencies"][i] = exit.metadata_before["dependencies"][i]

\* The position of the dependency with the name in a list, 0 without one.
PositionOf(dependencies, name) ==
    IF \E i \in 1..Len(dependencies) : dependencies[i].name = name
    THEN CHOOSE i \in 1..Len(dependencies) : dependencies[i].name = name
    ELSE 0

UniqueNames(dependencies) ==
    \A i, j \in 1..Len(dependencies) :
        dependencies[i].name = dependencies[j].name => i = j

\* The list `after` is the list `before` with the constraints of name set:
\* in place when before has the name, in a new last entry otherwise.
SetIn(before, after, name, constraints) ==
    /\ Len(after) = IF PositionOf(before, name) = 0 THEN Len(before) + 1 ELSE Len(before)
    /\ \A i \in 1..Len(before) :
        IF i = PositionOf(before, name)
        THEN after[i] = [name |-> name, constraints |-> constraints]
        ELSE after[i] = before[i]
    /\ PositionOf(before, name) = 0 =>
        after[Len(after)] = [name |-> name, constraints |-> constraints]

\* C30: set_dependency(existing, name, constraints) returns a metadata
\* document in which the entry for name carries exactly the given
\* constraints, replaced in place if name was present and appended last
\* otherwise; every other entry and its position are unchanged, the names of
\* the dependencies stay unique, and existing is not modified; applying it
\* again with the same arguments gives the same document.  It returns for
\* every list of constraints that constraints_schema accepts.
C30_SetDependency ==
    (exit.command = "set_dependency" /\ "dependencies" \in DOMAIN exit.existing_before) =>
        /\ exit.ok <=> constraints_schema(exit.args.constraints)
        /\ same_metadata(exit.existing, exit.existing_before)
        /\ exit.ok =>
            /\ DOMAIN exit.data = DOMAIN exit.existing_before
            /\ \A k \in DOMAIN exit.data \ {"dependencies"} :
                exit.data[k] = exit.existing_before[k]
            /\ SetIn(exit.existing_before["dependencies"], exit.data["dependencies"],
                     exit.args.name, exit.args.constraints)
            /\ UniqueNames(exit.data["dependencies"])
            /\ set_dependency(exit.data, exit.args.name, exit.args.constraints).ok
            /\ same_metadata(
                   set_dependency(exit.data, exit.args.name, exit.args.constraints).data,
                   exit.data)

\* The constraints of test1, the first of two dependencies, were replaced.
C30_Witness ==
    /\ exit.command = "set_dependency" /\ exit.ok
    /\ exit.args.name = "test1"
    /\ Len(exit.existing_before["dependencies"]) = 2
    /\ exit.existing_before["dependencies"][1] = [name |-> "test1", constraints |-> <<>>]
    /\ exit.data["dependencies"][1]
        = [name |-> "test1", constraints |-> <<Pin("master").text>>]
    /\ exit.data["dependencies"][2] = exit.existing_before["dependencies"][2]

\* test3 was appended to a list of two.
C30_Appended ==
    /\ exit.command = "set_dependency" /\ exit.ok
    /\ exit.args.name = "test3"
    /\ Len(exit.existing_before["dependencies"]) = 2
    /\ Len(exit.data["dependencies"]) = 3
    /\ exit.data["dependencies"][3].name = "test3"

\* The same call was made twice: the second returned the document it was
\* given.
C30_Twice ==
    /\ exit.command = "set_dependency" /\ exit.ok /\ commands = 2
    /\ same_metadata(exit.data, exit.existing_before)
    /\ exit.args.constraints # <<>>

\* Two branch pins are refused.
C30_Refused ==
    /\ exit.command = "set_dependency" /\ ~exit.ok /\ exit.exception = "SchemaError"
    /\ Len(exit.args.constraints) = 2

====
